---- MODULE Spec2Model ----
(***************************************************************************)
(* Edumanage: the relational store behind the school administration        *)
(* backend and the request handlers that change it.  Every handler is one  *)
(* action: it reads the store, runs the handler's checks in the handler's  *)
(* order, and commits or rolls back as prisma.$transaction does.           *)
(***************************************************************************)
EXTENDS Integers, Sequences, FiniteSets, TLC

\* ------------------------------------------------------------------ bounds
\* Longest id list of a request body.
MaxBatch == 2
\* Most Admission rows the store holds (admissions are never merged).
MaxAdm == 3
\* Most StudentCourseEnrollment rows per (student, course offering).
MaxDup == 2
\* Capacity of the larger classes of the registry.
MaxCapacity == 2
\* Last calendar day of the attendance registers (days are 1..MaxDay).
MaxDay == 3
\* Most LeaveStatusHistory rows the store holds.
MaxHist == 3
\* Instants per calendar day a request body may name (midnight, noon).
TicksPerDay == 2

\* ------------------------------------------------------------- identifiers
StudentIds == {"s1", "s2"}
ClassIds == {"A", "B", "C", "X"}
SubjectIds == {"phy", "chem", "bio"}
OfferingIds == {"o1", "o2", "o3", "o4"}
\* employees rows that exist; "t9" names no employee.
TeacherIds == {"t1", "t2"}
EmployeeIds == {"e1", "e2"}
LeaveIds == {"l1", "l2"}
BusIds == {"b1", "b2"}
BusNumbers == {"GJ-01", "GJ-05"}
TimetableIds == {"tt1", "tt2"}
ProcIds == {"p1", "p2"}
Days == 1..MaxDay
Sections == {"A", "B"}
SubjectNames == {"Physics", "Chemistry", "Optics"}

NoRow == [exists |-> FALSE]

\* No transaction is open.
NoTx == [active |-> FALSE]
\* A server process that serves no request.
Idle == [pc |-> "idle"]

VARIABLES
    students,    \* students: the student_id values that exist
    classes,     \* classes: class_id -> row
    adm,         \* admissions: <<student_id, class_id>> -> number of rows
    offerings,   \* course_offerings: course_offering_id -> row
    enr,         \* student_course_enrollments: <<student_id, offering>> -> rows
    subjects,    \* subjects: subject_id -> row
    leaves,      \* employee_leaves: leave_id -> row
    history,     \* leave_status_history: the rows in insertion order
    empAtt,      \* employee_attendance: <<employee_id, date>> -> row
    stuAtt,      \* student_attendance: <<student_id, date>> -> row
    today,       \* the server's calendar day
    answered,    \* leave_id -> number of requests on it answered 2xx
    inflight,    \* the open transaction of updateLeaveStatus, if any
    buses,       \* buses: bus id -> row
    busStops,    \* bus_stops: bus id -> the rows of the bus, by stop_order
    timetables,  \* timetables: timetable_id -> row
    slots,       \* timetable_slots: timetable_id -> the rows of the timetable
    procs,       \* the requests being served concurrently: where each stands
    resp         \* the response of the last request

vars == <<students, classes, adm, offerings, enr, subjects, leaves, history,
          empAtt, stuAtt, today, answered, inflight, buses, busStops,
          timetables, slots, procs, resp>>

\* The tables of the academic side and of the staff and attendance side.
Tables == <<students, classes, adm, offerings, enr, subjects>>
HrTables == <<leaves, history, empAtt, stuAtt, today, answered, inflight>>
\* The tables of transport and of the timetables.
SideTables == <<buses, busStops, timetables, slots>>

\* ---------------------------------------------------------------- helpers
RECURSIVE SetToSeq(_)
SetToSeq(S) ==
    IF S = {} THEN <<>>
    ELSE LET x == CHOOSE y \in S : TRUE IN <<x>> \o SetToSeq(S \ {x})

\* The keys of the admissions and enrollments tables, in a fixed order.
AdmKeys == SetToSeq(StudentIds \X ClassIds)
EnrKeys == SetToSeq(StudentIds \X OfferingIds)

RECURSIVE SumTo(_, _, _, _)
SumTo(f, keys, n, S) ==
    IF n = 0 THEN 0
    ELSE (IF keys[n] \in S THEN f[keys[n]] ELSE 0) + SumTo(f, keys, n - 1, S)

\* The number of Admission rows (of enrollment rows) whose key is in S.
SumAdm(a, S) == SumTo(a, AdmKeys, Len(AdmKeys), S)
SumEnr(e, S) == SumTo(e, EnrKeys, Len(EnrKeys), S)

Range(seq) == {seq[i] : i \in 1..Len(seq)}

Occurrences(seq, x) == Cardinality({i \in 1..Len(seq) : seq[i] = x})

\* The id lists a request body can carry (repeats allowed, empty allowed).
Batches(S) == UNION {[1..n -> S] : n \in 0..MaxBatch}

\* The store as one value: what a transaction reads, changes and commits.
Store ==
    [students |-> students, adm |-> adm, offerings |-> offerings,
     enr |-> enr, subjects |-> subjects]

\* A handler's outcome: the HTTP status, the error it names, a count it
\* reports, and the store as the transaction callback left it.
Outcome(st, status, err, count) ==
    [status |-> status, err |-> err, count |-> count, store |-> st]

\* prisma.$transaction(async tx => ...): the callback's writes are committed
\* when it returns and discarded when it throws.
TransactionNoRollback(before, r) == r.store
Transaction(before, r) ==
    IF r.status < 400 THEN r.store ELSE before

Commit(store) ==
    \E st \in {store} :
        /\ students' = st.students
        /\ adm' = st.adm
        /\ offerings' = st.offerings
        /\ enr' = st.enr
        /\ subjects' = st.subjects

\* The request (its parameters and body) and the response sent for it.
Respond(op, req, r) ==
    resp' = [op |-> op, req |-> req, status |-> r.status, err |-> r.err,
             count |-> r.count]

\* ------------------------------------------------------------ the registry
ClassRegistry ==
    [c \in ClassIds |->
        CASE c = "A" -> [exists |-> TRUE, academic_year_id |-> "Y1",
                         standard |-> "10", section |-> "A",
                         capacity |-> MaxCapacity, class_teacher_id |-> "t1"]
          [] c = "B" -> [exists |-> TRUE, academic_year_id |-> "Y1",
                         standard |-> "10", section |-> "B", capacity |-> 1,
                         class_teacher_id |-> "t2"]
          [] c = "C" -> [exists |-> TRUE, academic_year_id |-> "Y2",
                         standard |-> "11", section |-> "A",
                         capacity |-> MaxCapacity, class_teacher_id |-> "t1"]
          [] OTHER -> NoRow]

\* academic_years rows: Y1 is the active year.
ActiveYears == {"Y1"}

\* _count.admissions of a class.
AdmissionCount(a, c) == SumAdm(a, {<<s, c>> : s \in StudentIds})

TotalAdmissions(a) == SumAdm(a, StudentIds \X ClassIds)

ClassesOfYear(cl, y) ==
    {c \in ClassIds : cl[c].exists /\ cl[c].academic_year_id = y}

\* ------------------------------------------------------ addStudentsToClass
\* Step C: the incoming students holding an admission in a class of the
\* target class's academic year.
ExistingAdmissions(st, classId, studentIds) ==
    {s \in Range(studentIds) :
        \E c \in ClassesOfYear(classes, classes[classId].academic_year_id) :
            st.adm[<<s, c>>] > 0}

\* Steps D and E: one Admission row per element of the list.
CreateAdmissions(a, classId, studentIds) ==
    [k \in DOMAIN a |->
        IF k[2] = classId THEN a[k] + Occurrences(studentIds, k[1]) ELSE a[k]]

\* A variant that admits the students that pass the cross-check and skips
\* the others instead of rejecting the batch.
AddStudentsTxPartial(st, classId, studentIds) ==
    IF ~classes[classId].exists
    THEN Outcome(st, 400, "Class not found.", 0)
    ELSE LET ok == SelectSeq(studentIds,
                     LAMBDA s : s \in st.students
                                /\ s \notin ExistingAdmissions(st, classId, studentIds))
             st2 == [st EXCEPT !.adm = CreateAdmissions(st.adm, classId, ok)]
         IN IF AdmissionCount(st.adm, classId) + Len(studentIds)
                  > classes[classId].capacity
            THEN Outcome(st, 400, "capacity", 0)
            ELSE Outcome(st2, 201, "", Len(ok))

\* The transaction callback of addStudentsToClass.
AddStudentsTx(st, classId, studentIds) ==
    IF ~classes[classId].exists
    THEN Outcome(st, 400, "Class not found.", 0)
    ELSE IF AdmissionCount(st.adm, classId) + Len(studentIds)
              > classes[classId].capacity
    THEN Outcome(st, 400, "capacity", 0)
    ELSE IF ExistingAdmissions(st, classId, studentIds) # {}
    THEN Outcome(st, 400, "already admitted", 0)
    ELSE IF ~(Range(studentIds) \subseteq st.students)
    THEN Outcome(st, 400, "foreign key", 0)
    ELSE Outcome([st EXCEPT !.adm = CreateAdmissions(st.adm, classId, studentIds)],
                 201, "", Len(studentIds))

AddStudentsOutcome(classId, studentIds) ==
    IF Len(studentIds) = 0
    THEN Outcome(Store, 400, "studentIds must be a non-empty array.", 0)
    ELSE AddStudentsTx(Store, classId, studentIds)

AddStudentsToClass(classId, studentIds) ==
    \E r \in {AddStudentsOutcome(classId, studentIds)} :
       /\ TotalAdmissions(r.store.adm) <= MaxAdm
       /\ Commit(Transaction(Store, r))
       /\ Respond("addStudentsToClass", [classId |-> classId, studentIds |-> studentIds], r)
       /\ UNCHANGED <<classes, HrTables, SideTables, procs>>

\* ------------------------------------------------------------ createStudent
OfferingsOfClass(off, c) ==
    {o \in OfferingIds : off[o].exists /\ off[o].class_id = c}

\* Step E: the mandatory course offerings of the class.
MandatoryCourses(off, c) ==
    {o \in OfferingsOfClass(off, c) : off[o].is_mandatory}

AddEnrollments(e, s, os, n) ==
    [k \in DOMAIN e |-> IF k[1] = s /\ k[2] \in os THEN e[k] + n ELSE e[k]]

\* The transaction callback of createStudent: the student row, its admission
\* (no capacity check precedes it) and an enrollment per mandatory offering.
\* numbersFree: admission_number and gr_number are not taken yet.
CreateStudentTx(st, classId, s, numbersFree) ==
    LET st1 == [st EXCEPT !.students = @ \cup {s}]
    IN IF ~classes[classId].exists
       THEN Outcome(st1, 500, "foreign key", 0)
       ELSE IF ~numbersFree
       THEN Outcome(st1, 409, "unique constraint", 0)
       ELSE Outcome([st1 EXCEPT
                        !.adm[<<s, classId>>] = @ + 1,
                        !.enr = AddEnrollments(@, s, MandatoryCourses(st.offerings, classId), 1)],
                    201, "", 1)

CreateStudentOutcome(classId, s, valid, numbersFree) ==
    IF ~valid
    THEN Outcome(Store, 400, "required fields", 0)
    ELSE CreateStudentTx(Store, classId, s, numbersFree)

CreateStudent(classId, s, valid, numbersFree) ==
    \E r \in {CreateStudentOutcome(classId, s, valid, numbersFree)} :
       /\ s \notin students
       /\ TotalAdmissions(r.store.adm) <= MaxAdm
       /\ Commit(Transaction(Store, r))
       /\ Respond("createStudent", [classId |-> classId, studentId |-> s], r)
       /\ UNCHANGED <<classes, HrTables, SideTables, procs>>

\* ---------------------------------------------------------- promoteStudents
\* Step 3: the classes the listed students hold admissions in.
CurrentClassIds(st, studentIds) ==
    {c \in ClassIds : \E s \in Range(studentIds) : st.adm[<<s, c>>] > 0}

\* tx.admission.updateMany: every admission of a listed student points to
\* the target class.
MoveAdmissions(a, studentIds, target) ==
    [k \in DOMAIN a |->
        IF k[1] \in Range(studentIds)
        THEN IF k[2] = target
             THEN SumAdm(a, {<<k[1], c>> : c \in ClassIds})
             ELSE 0
        ELSE a[k]]

\* tx.studentCourseEnrollment.deleteMany: the listed students' enrollments
\* in offerings of the prior classes.
DeletePriorEnrollments(e, off, studentIds, classIds) ==
    [k \in DOMAIN e |->
        IF /\ k[1] \in Range(studentIds)
           /\ off[k[2]].exists
           /\ off[k[2]].class_id \in classIds
        THEN 0 ELSE e[k]]

\* tx.studentCourseEnrollment.createMany: one row per element of the list
\* and target offering; skipDuplicates only guards the primary key, the
\* table has no unique key on (student_id, course_offering_id).
EnrollInTarget(e, studentIds, targetOfferings) ==
    [k \in DOMAIN e |->
        IF k[2] \in targetOfferings
        THEN e[k] + Occurrences(studentIds, k[1])
        ELSE e[k]]

PromoteTx(st, studentIds, target, currentClassIds, targetOfferings) ==
    LET e1 == DeletePriorEnrollments(st.enr, st.offerings, studentIds, currentClassIds)
        st1 == [st EXCEPT !.adm = MoveAdmissions(st.adm, studentIds, target),
                          !.enr = e1]
    IN IF targetOfferings # {} /\ ~(Range(studentIds) \subseteq st.students)
       THEN Outcome(st1, 500, "foreign key", 0)
       ELSE Outcome([st1 EXCEPT !.enr = EnrollInTarget(e1, studentIds, targetOfferings)],
                    200, "",
                    SumAdm(st.adm, Range(studentIds) \X ClassIds))

PromoteOutcome(studentIds, target) ==
    IF Len(studentIds) = 0
    THEN Outcome(Store, 400, "studentIds must be a non-empty array.", 0)
    ELSE IF ~classes[target].exists
    THEN Outcome(Store, 404, "Target class not found.", 0)
    ELSE IF AdmissionCount(adm, target) + Len(studentIds) > classes[target].capacity
    THEN Outcome(Store, 400, "capacity", 0)
    ELSE PromoteTx(Store, studentIds, target,
                   CurrentClassIds(Store, studentIds),
                   OfferingsOfClass(offerings, target))

PromoteStudents(studentIds, target) ==
    \E r \in {PromoteOutcome(studentIds, target)} :
       /\ \A k \in DOMAIN enr : r.store.enr[k] <= MaxDup
       /\ Commit(Transaction(Store, r))
       /\ Respond("promoteStudents", [studentIds |-> studentIds, targetClassId |-> target], r)
       /\ UNCHANGED <<classes, HrTables, SideTables, procs>>

\* --------------------------------------------------- deleteStudentFromClass
DeleteStudentFromClass(classId, s) ==
    LET n == adm[<<s, classId>>]
    IN /\ adm' = [adm EXCEPT ![<<s, classId>>] = 0]
       /\ resp' = [op |-> "deleteStudentFromClass",
                   req |-> [classId |-> classId, studentId |-> s],
                   status |-> IF n = 0 THEN 404 ELSE 200,
                   err |-> IF n = 0 THEN "Admission record not found." ELSE "",
                   count |-> n]
       /\ UNCHANGED <<students, classes, offerings, enr, subjects, HrTables, SideTables, procs>>

\* ------------------------------------------------------------ enrollStudents
OfferingsOfSubject(off, subjectId) ==
    {o \in OfferingIds : off[o].exists /\ off[o].subject_id = subjectId}

\* new Map(courseOfferings.map(co => [co.class_id, co.course_offering_id])):
\* one offering per class; with several offerings of the subject in one class
\* the last of the unordered query result wins, so any of them may.
ClassToOfferingMaps(off, os) ==
    LET cs == {off[o].class_id : o \in os}
    IN {m \in [cs -> os] : \A c \in cs : off[m[c]].class_id = c}

\* Step 5: for every Admission row of a listed student whose class has an
\* offering of the subject, one enrollment unless the student was enrolled in
\* that offering before the request.
EnrollByAdmission(st, studentIds, m) ==
    [k \in DOMAIN st.enr |->
        IF /\ k[1] \in Range(studentIds)
           /\ k[2] \in {m[c] : c \in DOMAIN m}
           /\ st.enr[k] = 0
        THEN st.adm[<<k[1], st.offerings[k[2]].class_id>>]
        ELSE st.enr[k]]

EnrollStudentsTx(st, subjectId, studentIds, m) ==
    IF OfferingsOfSubject(st.offerings, subjectId) = {}
    THEN Outcome(st, 500, "not linked to any classes", 0)
    ELSE LET e2 == EnrollByAdmission(st, studentIds, m)
         IN Outcome([st EXCEPT !.enr = e2], 201, "",
                    SumEnr(e2, DOMAIN e2) - SumEnr(st.enr, DOMAIN e2))

EnrollStudents(subjectId, studentIds) ==
    \E m \in ClassToOfferingMaps(offerings, OfferingsOfSubject(offerings, subjectId)) :
        \E r \in {IF Len(studentIds) = 0
                  THEN Outcome(Store, 400, "studentIds is required", 0)
                  ELSE EnrollStudentsTx(Store, subjectId, studentIds, m)} :
           /\ \A k \in DOMAIN enr : r.store.enr[k] <= MaxDup
           /\ Commit(Transaction(Store, r))
           /\ Respond("enrollStudents", [subjectId |-> subjectId, studentIds |-> studentIds], r)
           /\ UNCHANGED <<classes, HrTables, SideTables, procs>>

\* --------------------------------------------------------------- editSubject
Offering(c, s, t, m) ==
    [exists |-> TRUE, class_id |-> c, subject_id |-> s, teacher_id |-> t,
     is_mandatory |-> m]

OfferingSeq == SetToSeq(OfferingIds)
ClassSeq == SetToSeq(ClassIds)

\* Step 5a: the classes of the standard and sections in the active year.
TargetClasses(standard, sections) ==
    {c \in ClassIds :
        /\ classes[c].exists
        /\ classes[c].standard = standard
        /\ classes[c].section \in Range(sections)
        /\ classes[c].academic_year_id \in ActiveYears}

\* courseOffering.deleteMany; the enrollments of a deleted offering go with
\* it (ON DELETE CASCADE).
DeleteOfferings(st, os) ==
    [st EXCEPT
        !.offerings = [o \in OfferingIds |-> IF o \in os THEN NoRow ELSE @[o]],
        !.enr = [k \in DOMAIN @ |-> IF k[2] \in os THEN 0 ELSE @[k]]]

\* A synchronization that leaves the kept offerings as they were.
UpdateOfferingsSkip(off, subjectId, cs, teacherId, isMandatory) == off

\* Step 5d: courseOffering.updateMany on the subject's offerings in cs.
UpdateOfferings(off, subjectId, cs, teacherId, isMandatory) ==
    [o \in OfferingIds |->
        IF off[o].exists /\ off[o].subject_id = subjectId /\ off[o].class_id \in cs
        THEN [off[o] EXCEPT !.teacher_id = teacherId, !.is_mandatory = isMandatory]
        ELSE off[o]]

\* The course_offering_id values not in use, in a fixed order.
FreeOfferingIds(off) == SelectSeq(OfferingSeq, LAMBDA o : ~off[o].exists)

\* Step 5e: courseOffering.createMany, one new row per class of cs.
CreateOfferings(off, subjectId, cs, teacherId, isMandatory) ==
    LET new == SelectSeq(ClassSeq, LAMBDA c : c \in cs)
        free == FreeOfferingIds(off)
    IN [o \in OfferingIds |->
          IF \E i \in DOMAIN new \cap DOMAIN free : free[i] = o
          THEN Offering(new[CHOOSE i \in DOMAIN new \cap DOMAIN free : free[i] = o],
                        subjectId, teacherId, isMandatory)
          ELSE off[o]]

\* The transaction callback of editSubject.
EditSubjectTx(st, q) ==
    IF ~st.subjects[q.subjectId].exists
    THEN Outcome(st, 404, "Subject not found.", 0)
    ELSE IF q.teacherId \notin TeacherIds
    THEN Outcome(st, 404, "The selected teacher does not exist.", 0)
    ELSE IF ActiveYears = {}
    THEN Outcome(st, 500, "No active academic year found.", 0)
    ELSE IF /\ q.name # st.subjects[q.subjectId].subject_name
            /\ \E s \in SubjectIds \ {q.subjectId} :
                  st.subjects[s].exists /\ st.subjects[s].subject_name = q.name
    THEN Outcome(st, 409, "A subject with the name already exists.", 0)
    ELSE
    LET st1 == [st EXCEPT !.subjects[q.subjectId].subject_name = q.name]
        targetClassIds == TargetClasses(q.standard, q.sections)
        existing == OfferingsOfSubject(st.offerings, q.subjectId)
        existingClassIds == {st.offerings[o].class_id : o \in existing}
        toDelete == {o \in existing : st.offerings[o].class_id \notin targetClassIds}
        enrollmentsCount == SumEnr(st.enr, StudentIds \X toDelete)
        st2 == DeleteOfferings(st1, toDelete)
        off3 == UpdateOfferings(st2.offerings, q.subjectId,
                                existingClassIds \cap targetClassIds,
                                q.teacherId, q.isMandatory)
        off4 == CreateOfferings(off3, q.subjectId,
                                targetClassIds \ existingClassIds,
                                q.teacherId, q.isMandatory)
    IN IF Cardinality(targetClassIds) # Len(q.sections)
       THEN Outcome(st1, 404, "classes could not be found", 0)
       ELSE IF toDelete # {} /\ enrollmentsCount > 0
       THEN Outcome(st1, 409, "students are enrolled", enrollmentsCount)
       ELSE Outcome([st2 EXCEPT !.offerings = off4], 200, "", 0)

EditSubjectOutcome(q) ==
    IF Len(q.sections) = 0
    THEN Outcome(Store, 400, "At least one section must be selected.", 0)
    ELSE EditSubjectTx(Store, q)

\* The rows createMany needs ids for, and the ids free once deleteMany ran.
EditSubject(q) ==
    /\ LET existing == OfferingsOfSubject(offerings, q.subjectId)
           target == TargetClasses(q.standard, q.sections)
       IN Len(FreeOfferingIds(offerings))
             + Cardinality({o \in existing : offerings[o].class_id \notin target})
          >= Cardinality(target \ {offerings[o].class_id : o \in existing})
    /\ \E r \in {EditSubjectOutcome(q)} :
       /\ Commit(Transaction(Store, r))
       /\ Respond("editSubject", q, r)
       /\ UNCHANGED <<classes, HrTables, SideTables, procs>>

\* -------------------------------------------------------------------- dates
\* new Date("YYYY-MM-DD"): the instant of UTC midnight of the day.
Midnight(d) == d * TicksPerDay

\* The instants a request body may name: midnight of a day or a later time
\* of that day.
Instants == {Midnight(d) + h : d \in Days, h \in 0..(TicksPerDay - 1)}

\* A DATE column keeps the calendar day of the instant written to it.
DateColumn(t) == t \div TicksPerDay

\* dt.setDate(dt.getDate() + 1): the same time of the next day.
NextDay(t) == t + TicksPerDay

\* for (dt = start; dt <= end; dt.setDate(dt.getDate() + 1)) push(dt)
RECURSIVE DateRange(_, _)
DateRange(start, end) ==
    IF start > end THEN <<>> ELSE <<start>> \o DateRange(NextDay(start), end)

\* The loop with dt < end in place of dt <= end.
RECURSIVE DateRangeExclusive(_, _)
DateRangeExclusive(start, end) ==
    IF start >= end THEN <<>>
    ELSE <<start>> \o DateRangeExclusive(NextDay(start), end)

ValidStatuses == {"present", "absent", "late", "half_day", "on_leave"}

Reply(op, req, status, err, count) ==
    resp' = [op |-> op, req |-> req, status |-> status, err |-> err, count |-> count]

\* ------------------------------------------------------- createLeaveRequest
\* The leave_id the database gives the next row.
LeaveSeq == SetToSeq(LeaveIds)
NewLeaveId ==
    LeaveSeq[CHOOSE i \in 1..Len(LeaveSeq) :
                /\ ~leaves[LeaveSeq[i]].exists
                /\ \A j \in 1..(i - 1) : leaves[LeaveSeq[j]].exists]

\* A history row replaces the leave's latest one.
OverwriteHistory(h, row) ==
    IF \E i \in 1..Len(h) : h[i].leave_id = row.leave_id
    THEN LET last == CHOOSE i \in 1..Len(h) :
                        /\ h[i].leave_id = row.leave_id
                        /\ \A j \in (i + 1)..Len(h) : h[j].leave_id # row.leave_id
         IN [h EXCEPT ![last] = row]
    ELSE Append(h, row)

\* tx.leaveStatusHistory.create
AppendHistory(h, row) == Append(h, row)

CreateLeaveRequest(q) ==
    IF q.reason = ""
    THEN /\ Reply("createLeaveRequest", q, 400, "Please provide all required fields", 0)
         /\ UNCHANGED <<Tables, HrTables, SideTables, procs>>
    ELSE /\ \E l \in LeaveIds : ~leaves[l].exists
         /\ Len(history) < MaxHist
         /\ leaves' = [leaves EXCEPT ![NewLeaveId] =
                          [exists |-> TRUE, employee_id |-> q.employeeId,
                           start_date |-> DateColumn(Midnight(q.startDate)),
                           end_date |-> DateColumn(Midnight(q.endDate)),
                           reason |-> q.reason, status |-> "pending"]]
         /\ history' = AppendHistory(history,
                          [leave_id |-> NewLeaveId, status |-> "pending",
                           comment |-> "Leave request created."])
         /\ answered' = [answered EXCEPT ![NewLeaveId] = @ + 1]
         /\ Reply("createLeaveRequest", q, 201, "", 1)
         /\ UNCHANGED <<Tables, empAtt, stuAtt, today, inflight, SideTables, procs>>

\* ------------------------------------------------- applyForLeave (teacher)
\* prisma.employeeLeave.create alone: the handler writes no history row.
ApplyForLeave(q) ==
    IF q.reason = ""
    THEN /\ Reply("applyForLeave", q, 400, "Please provide all required fields", 0)
         /\ UNCHANGED <<Tables, HrTables, SideTables, procs>>
    ELSE IF Midnight(q.endDate) < Midnight(q.startDate)
    THEN /\ Reply("applyForLeave", q, 400, "End date cannot be earlier than the start date.", 0)
         /\ UNCHANGED <<Tables, HrTables, SideTables, procs>>
    ELSE /\ \E l \in LeaveIds : ~leaves[l].exists
         /\ leaves' = [leaves EXCEPT ![NewLeaveId] =
                          [exists |-> TRUE, employee_id |-> q.employeeId,
                           start_date |-> DateColumn(Midnight(q.startDate)),
                           end_date |-> DateColumn(Midnight(q.endDate)),
                           reason |-> q.reason, status |-> "pending"]]
         /\ answered' = [answered EXCEPT ![NewLeaveId] = @ + 1]
         /\ Reply("applyForLeave", q, 201, "", 1)
         /\ UNCHANGED <<Tables, history, empAtt, stuAtt, today, inflight, SideTables, procs>>

\* -------------------------------------------------------- updateLeaveStatus
\* The approval loop stopping before the end date.
LeaveDatesExclusive(leave) ==
    {DateColumn(t) :
        t \in Range(DateRangeExclusive(Midnight(leave.start_date),
                                       Midnight(leave.end_date)))}

\* The days the approval loop visits, as the DATE column keeps them.
LeaveDates(leave) ==
    {DateColumn(t) :
        t \in Range(DateRange(Midnight(leave.start_date), Midnight(leave.end_date)))}

ApprovedRemark(leave) == <<"Approved Leave: ", leave.reason>>

\* tx.employeeAttendance.upsert for every day of the leave: an existing row
\* keeps its other columns.
ApproveAttendance(att, leave) ==
    [k \in DOMAIN att |->
        IF k[1] = leave.employee_id /\ k[2] \in LeaveDates(leave)
        THEN IF att[k].exists
             THEN [att[k] EXCEPT !.status = "on_leave", !.source = "manual",
                                 !.remarks = ApprovedRemark(leave)]
             ELSE [exists |-> TRUE, status |-> "on_leave", source |-> "manual",
                   remarks |-> ApprovedRemark(leave), check_in_time |-> "null"]
        ELSE att[k]]

UpdateLeaveStatus(q) ==
    IF q.status \notin {"approved", "rejected", "pending"}
    THEN /\ Reply("updateLeaveStatus", q, 400, "Invalid status provided.", 0)
         /\ UNCHANGED <<Tables, HrTables, SideTables, procs>>
    ELSE IF ~leaves[q.leaveId].exists
    THEN /\ Reply("updateLeaveStatus", q, 404, "Leave request not found.", 0)
         /\ UNCHANGED <<Tables, HrTables, SideTables, procs>>
    ELSE /\ Len(history) < MaxHist
         /\ leaves' = [leaves EXCEPT ![q.leaveId].status = q.status]
         /\ history' = AppendHistory(history,
                          [leave_id |-> q.leaveId, status |-> q.status,
                           comment |-> q.reason])
         /\ empAtt' = IF q.status = "approved"
                      THEN ApproveAttendance(empAtt, leaves[q.leaveId])
                      ELSE empAtt
         /\ answered' = [answered EXCEPT ![q.leaveId] = @ + 1]
         /\ Reply("updateLeaveStatus", q, 200, "", 0)
         /\ UNCHANGED <<Tables, stuAtt, today, inflight, SideTables, procs>>

\* --------------------------- updateLeaveStatus, one awaited statement a step
\* The days of the approval loop, in the loop's order.
LeaveDaySeq(leave) ==
    LET r == DateRange(Midnight(leave.start_date), Midnight(leave.end_date))
    IN [i \in 1..Len(r) |-> DateColumn(r[i])]

\* The statements the transaction callback awaits: the status update, the
\* history row and, for an approval, one upsert per day.
TxLength(t) ==
    2 + (IF t.req.status = "approved" THEN Len(LeaveDaySeq(t.leave)) ELSE 0)

\* The three tables with the writes of the first `done` statements of the
\* open transaction: what the transaction sees, and what a commit publishes.
TxView(t) ==
    [leaves |-> IF t.done >= 1
                THEN [leaves EXCEPT ![t.req.leaveId].status = t.req.status]
                ELSE leaves,
     history |-> IF t.done >= 2
                 THEN AppendHistory(history,
                          [leave_id |-> t.req.leaveId, status |-> t.req.status,
                           comment |-> t.req.reason])
                 ELSE history,
     empAtt |-> IF t.done > 2
                THEN ApproveAttendance(empAtt,
                         [t.leave EXCEPT !.end_date = t.leave.start_date + t.done - 3])
                ELSE empAtt]

\* The checks before the transaction, then prisma.$transaction opens.  One
\* updateLeaveStatus transaction is open at a time.
BeginUpdateLeaveStatus(q) ==
    /\ ~inflight.active
    /\ IF q.status \notin {"approved", "rejected", "pending"}
       THEN /\ Reply("updateLeaveStatus", q, 400, "Invalid status provided.", 0)
            /\ UNCHANGED <<Tables, HrTables, SideTables, procs>>
       ELSE IF ~leaves[q.leaveId].exists
       THEN /\ Reply("updateLeaveStatus", q, 404, "Leave request not found.", 0)
            /\ UNCHANGED <<Tables, HrTables, SideTables, procs>>
       ELSE /\ inflight' = [active |-> TRUE, req |-> q, leave |-> leaves[q.leaveId],
                            done |-> 0]
            /\ UNCHANGED <<Tables, leaves, history, empAtt, stuAtt, today, answered, SideTables, procs, resp>>

\* The next awaited statement of the callback runs inside the transaction.
TxStatement ==
    /\ inflight.active
    /\ inflight.done < TxLength(inflight)
    /\ inflight' = [inflight EXCEPT !.done = @ + 1]
    /\ UNCHANGED <<Tables, leaves, history, empAtt, stuAtt, today, answered, SideTables, procs, resp>>

\* The next statement throws (the database refuses it, or the transaction
\* ran out of time): the callback rejects and the error handler answers 500.
TxThrow ==
    /\ inflight.active
    /\ inflight.done < TxLength(inflight)
    /\ \E after \in {Transaction([leaves |-> leaves, history |-> history, empAtt |-> empAtt],
                                  [status |-> 500, store |-> TxView(inflight)])} :
          /\ leaves' = after.leaves
          /\ history' = after.history
          /\ empAtt' = after.empAtt
    /\ inflight' = NoTx
    /\ Reply("updateLeaveStatus", inflight.req, 500, "transaction failed", 0)
    /\ UNCHANGED <<Tables, stuAtt, today, answered, SideTables, procs>>

\* The callback returned: the transaction commits and the handler answers 200.
TxCommit ==
    /\ inflight.active
    /\ inflight.done = TxLength(inflight)
    /\ Len(history) < MaxHist
    /\ \E after \in {Transaction([leaves |-> leaves, history |-> history, empAtt |-> empAtt],
                                  [status |-> 200, store |-> TxView(inflight)])} :
          /\ leaves' = after.leaves
          /\ history' = after.history
          /\ empAtt' = after.empAtt
    /\ inflight' = NoTx
    /\ answered' = [answered EXCEPT ![inflight.req.leaveId] = @ + 1]
    /\ Reply("updateLeaveStatus", inflight.req, 200, "", 0)
    /\ UNCHANGED <<Tables, stuAtt, today, SideTables, procs>>

\* ----------------------------------------------------- markSingleAttendance
MarkSingleAttendance(q) ==
    IF q.status \notin ValidStatuses
    THEN /\ Reply("markSingleAttendance", q, 400, "Invalid status.", 0)
         /\ UNCHANGED <<Tables, HrTables, SideTables, procs>>
    ELSE /\ empAtt' = [empAtt EXCEPT ![<<q.employeeId, DateColumn(q.date)>>] =
                          [exists |-> TRUE, status |-> q.status,
                           source |-> "manual", remarks |-> q.reason,
                           check_in_time |-> q.checkIn]]
         /\ Reply("markSingleAttendance", q, 201, "", 1)
         /\ UNCHANGED <<Tables, leaves, history, stuAtt, today, answered, inflight, SideTables, procs>>

\* ------------------------------------------------- prisma.$transaction([...])
\* The operations of a batch run in list order; the database refuses the
\* first one whose person has no row (foreign key).  The number of
\* operations that ran before it, all of them when none is refused.
Accepted(ids, known) ==
    IF \A i \in 1..Len(ids) : ids[i] \in known
    THEN Len(ids)
    ELSE (CHOOSE i \in 1..Len(ids) :
             /\ ids[i] \notin known
             /\ \A j \in 1..(i - 1) : ids[j] \in known) - 1

\* A batch that keeps what it wrote before the refused operation.
BatchNoRollback(before, written, failed) == written

\* prisma.$transaction(operations): the writes are committed when every
\* operation ran and discarded when one failed.
BatchTransaction(before, written, failed) ==
    IF failed THEN before ELSE written

\* ------------------------------------------------------- markBulkAttendance
\* prisma.$transaction(upsertOperations): one upsert per date of the range
\* and listed employee.
BulkUpsert(att, q, dates) ==
    [k \in DOMAIN att |->
        IF k[1] \in Range(q.employeeIds) /\ k[2] \in {DateColumn(t) : t \in Range(dates)}
        THEN [exists |-> TRUE, status |-> q.status, source |-> "manual_bulk",
              remarks |-> q.reason, check_in_time |-> "null"]
        ELSE att[k]]

MarkBulkAttendance(q) ==
    LET dateRange == DateRange(q.startDate, q.endDate)
    IN IF Len(q.employeeIds) = 0
       THEN /\ Reply("markBulkAttendance", q, 400, "A valid array of employee IDs is required.", 0)
            /\ UNCHANGED <<Tables, HrTables, SideTables, procs>>
       ELSE IF q.status \notin ValidStatuses
       THEN /\ Reply("markBulkAttendance", q, 400, "Invalid status value.", 0)
            /\ UNCHANGED <<Tables, HrTables, SideTables, procs>>
       ELSE IF Len(dateRange) = 0
       THEN /\ Reply("markBulkAttendance", q, 400, "Date range or employee selection is invalid.", 0)
            /\ UNCHANGED <<Tables, HrTables, SideTables, procs>>
       ELSE LET n == Accepted(q.employeeIds, EmployeeIds)
                failed == n < Len(q.employeeIds)
                written ==
                    IF failed
                    THEN BulkUpsert(empAtt, [q EXCEPT !.employeeIds = SubSeq(@, 1, n)],
                                    <<dateRange[1]>>)
                    ELSE BulkUpsert(empAtt, q, dateRange)
            IN /\ empAtt' = BatchTransaction(empAtt, written, failed)
               /\ IF failed
                  THEN Reply("markBulkAttendance", q, 500, "Failed to mark bulk attendance.", 0)
                  ELSE Reply("markBulkAttendance", q, 201, "", Len(dateRange) * Len(q.employeeIds))
               /\ UNCHANGED <<Tables, leaves, history, stuAtt, today, answered, inflight, SideTables, procs>>

\* -------------------------------------------------- upsertStudentAttendance
\* update: { status, remarks }, create: { class_id, status, remarks }
AdminRow(old, rec, classId) ==
    IF old.exists
    THEN [old EXCEPT !.status = rec.status, !.remarks = rec.remarks]
    ELSE [exists |-> TRUE, class_id |-> classId, status |-> rec.status,
          remarks |-> rec.remarks]

\* update: { status }, create: { class_id, status }
TeacherRow(old, rec, classId) ==
    IF old.exists
    THEN [old EXCEPT !.status = rec.status]
    ELSE [exists |-> TRUE, class_id |-> classId, status |-> rec.status,
          remarks |-> "null"]

\* prisma.$transaction(upserts) over student_attendance, in list order: an
\* existing row takes the columns of `update`, a missing one is created.
RECURSIVE UpsertEach(_, _, _, _, _, _)
UpsertEach(att, records, n, day, classId, sheet) ==
    IF n = 0 THEN att
    ELSE LET before == UpsertEach(att, records, n - 1, day, classId, sheet)
             k == <<records[n].studentId, day>>
         IN [before EXCEPT ![k] =
                IF sheet = "admin" THEN AdminRow(before[k], records[n], classId)
                ELSE TeacherRow(before[k], records[n], classId)]

\* attendanceData.map(record => record.studentId)
StudentIdsOf(records) == [i \in 1..Len(records) |-> records[i].studentId]

\* prisma.class.findFirst by standard and section in the active year.
ActiveClasses(standard, section) ==
    {c \in ClassIds :
        /\ classes[c].exists
        /\ classes[c].standard = standard
        /\ classes[c].section = section
        /\ classes[c].academic_year_id \in ActiveYears}

UpsertStudentAttendance(q) ==
    IF Len(q.attendanceData) = 0
    THEN /\ Reply("upsertStudentAttendance", q, 400, "attendanceData must be a non-empty array.", 0)
         /\ UNCHANGED <<Tables, HrTables, SideTables, procs>>
    ELSE IF ActiveClasses(q.standard, q.section) = {}
    THEN /\ Reply("upsertStudentAttendance", q, 404, "Class not found in the active academic year.", 0)
         /\ UNCHANGED <<Tables, HrTables, SideTables, procs>>
    ELSE IF \E i \in 1..Len(q.attendanceData) :
               \/ q.attendanceData[i].studentId = ""
               \/ q.attendanceData[i].status \notin ValidStatuses
    THEN /\ Reply("upsertStudentAttendance", q, 500, "Invalid attendance status", 0)
         /\ UNCHANGED <<Tables, HrTables, SideTables, procs>>
    ELSE \E c \in ActiveClasses(q.standard, q.section) :
         LET n == Accepted(StudentIdsOf(q.attendanceData), students)
             failed == n < Len(q.attendanceData)
         IN /\ stuAtt' = BatchTransaction(stuAtt,
                             UpsertEach(stuAtt, q.attendanceData, n,
                                        DateColumn(Midnight(q.date)), c, "admin"),
                             failed)
            /\ IF failed
               THEN Reply("upsertStudentAttendance", q, 500, "foreign key", 0)
               ELSE Reply("upsertStudentAttendance", q, 200, "", Len(q.attendanceData))
            /\ UNCHANGED <<Tables, leaves, history, empAtt, today, answered, inflight, SideTables, procs>>

\* --------------------------------------------------------- submitAttendance
SubmitAttendance(q) ==
    IF ~(classes[q.classId].exists /\ classes[q.classId].class_teacher_id = q.employeeId)
    THEN /\ Reply("submitAttendance", q, 403, "Forbidden", 0)
         /\ UNCHANGED <<Tables, HrTables, SideTables, procs>>
    ELSE IF \E i \in 1..Len(q.attendanceData) : q.attendanceData[i].status \notin ValidStatuses
    THEN /\ Reply("submitAttendance", q, 500, "Invalid status", 0)
         /\ UNCHANGED <<Tables, HrTables, SideTables, procs>>
    ELSE LET n == Accepted(StudentIdsOf(q.attendanceData), students)
             failed == n < Len(q.attendanceData)
         IN /\ stuAtt' = BatchTransaction(stuAtt,
                             UpsertEach(stuAtt, q.attendanceData, n,
                                        DateColumn(q.date), q.classId, "teacher"),
                             failed)
            /\ IF failed
               THEN Reply("submitAttendance", q, 500, "A database error occurred", 0)
               ELSE Reply("submitAttendance", q, 200, "", Len(q.attendanceData))
            /\ UNCHANGED <<Tables, leaves, history, empAtt, today, answered, inflight, SideTables, procs>>

\* ------------------------------------------------------ createLeave (student)
\* One upsert per day of the loop: status on_leave, remarks the reason.
LeaveUpsert(att, s, classId, dates, reason) ==
    [k \in DOMAIN att |->
        IF k[1] = s /\ k[2] \in {DateColumn(t) : t \in Range(dates)}
        THEN IF att[k].exists
             THEN [att[k] EXCEPT !.status = "on_leave", !.remarks = reason]
             ELSE [exists |-> TRUE, class_id |-> classId, status |-> "on_leave",
                   remarks |-> reason]
        ELSE att[k]]

CreateLeave(q) ==
    IF q.reason = ""
    THEN /\ Reply("createLeave", q, 400, "Please provide fromDate, toDate, and a reason.", 0)
         /\ UNCHANGED <<Tables, HrTables, SideTables, procs>>
    ELSE IF Midnight(q.fromDate) > Midnight(q.toDate)
    THEN /\ Reply("createLeave", q, 400, "The start date cannot be after the end date.", 0)
         /\ UNCHANGED <<Tables, HrTables, SideTables, procs>>
    ELSE IF q.userId \notin students
    THEN /\ Reply("createLeave", q, 404, "Student profile not found.", 0)
         /\ UNCHANGED <<Tables, HrTables, SideTables, procs>>
    ELSE IF \A c \in ClassIds : adm[<<q.userId, c>>] = 0
    THEN /\ Reply("createLeave", q, 404, "Could not find student's class enrollment.", 0)
         /\ UNCHANGED <<Tables, HrTables, SideTables, procs>>
    ELSE \E c \in {x \in ClassIds : adm[<<q.userId, x>>] > 0} :
         /\ stuAtt' = LeaveUpsert(stuAtt, q.userId, c,
                                  DateRange(Midnight(q.fromDate), Midnight(q.toDate)),
                                  q.reason)
         /\ Reply("createLeave", q, 201, "", 0)
         /\ UNCHANGED <<Tables, leaves, history, empAtt, today, answered, inflight, SideTables, procs>>

\* ------------------------------------------------------ cancelLeave (student)
\* The days of the register in date order.
DaySeq == [i \in 1..MaxDay |-> i]

\* Step 5, findMany: the student's on_leave rows with the named row's
\* remarks, dated from the named day on, ordered by date.
AllLeaveDaysForReason(att, s, day) ==
    SelectSeq(DaySeq,
              LAMBDA d : /\ d >= day
                         /\ att[<<s, d>>].exists
                         /\ att[<<s, d>>].status = "on_leave"
                         /\ att[<<s, d>>].remarks = att[<<s, day>>].remarks)

\* Step 5, the loop from the named row (the first of the list): push the
\* row, break when the next row of the list is not dated the next day.
RECURSIVE LeavePeriodIds(_, _)
LeavePeriodIds(list, i) ==
    IF i > Len(list) THEN <<>>
    ELSE IF i < Len(list) /\ list[i + 1] # list[i] + 1 THEN <<list[i]>>
    ELSE <<list[i]>> \o LeavePeriodIds(list, i + 1)

\* The loop without the check for discontinuity.
LeavePeriodNoBreak(att, s, day) == Range(AllLeaveDaysForReason(att, s, day))

\* leavePeriodIds: the rows updateMany sets to absent.
LeavePeriod(att, s, day) ==
    Range(LeavePeriodIds(AllLeaveDaysForReason(att, s, day), 1))

\* Step 4: leaveStartDate is the date of the named row.
NamedDay(att, s, day) == day

CancelLeave(q) ==
    LET row == stuAtt[q.id]
    IN IF q.userId \notin students
       THEN /\ Reply("cancelLeave", q, 404, "Student profile not found.", 0)
            /\ UNCHANGED <<Tables, HrTables, SideTables, procs>>
       ELSE IF ~row.exists
       THEN /\ Reply("cancelLeave", q, 404, "Leave record not found.", 0)
            /\ UNCHANGED <<Tables, HrTables, SideTables, procs>>
       ELSE IF q.id[1] # q.userId
       THEN /\ Reply("cancelLeave", q, 403, "You are not authorized to cancel this leave request.", 0)
            /\ UNCHANGED <<Tables, HrTables, SideTables, procs>>
       ELSE IF row.status # "on_leave"
       THEN /\ Reply("cancelLeave", q, 400, "This record is not a leave record and cannot be cancelled.", 0)
            /\ UNCHANGED <<Tables, HrTables, SideTables, procs>>
       ELSE IF Midnight(NamedDay(stuAtt, q.id[1], q.id[2])) <= Midnight(today)
       THEN /\ Reply("cancelLeave", q, 400, "Past or ongoing leave requests cannot be cancelled.", 0)
            /\ UNCHANGED <<Tables, HrTables, SideTables, procs>>
       ELSE /\ stuAtt' = [k \in DOMAIN stuAtt |->
                            IF k[1] = q.userId /\ k[2] \in LeavePeriod(stuAtt, q.userId, q.id[2])
                            THEN [stuAtt[k] EXCEPT !.status = "absent",
                                     !.remarks = "Leave Cancelled by Student"]
                            ELSE stuAtt[k]]
            /\ Reply("cancelLeave", q, 200, "", Cardinality(LeavePeriod(stuAtt, q.userId, q.id[2])))
            /\ UNCHANGED <<Tables, leaves, history, empAtt, today, answered, inflight, SideTables, procs>>

\* The calendar moves to the next day.
Tick ==
    /\ today < MaxDay
    /\ today' = today + 1
    /\ UNCHANGED <<Tables, leaves, history, empAtt, stuAtt, answered, inflight, SideTables, procs, resp>>

\* ---------------------------------------------- newBus, updateBus, deleteBus
\* The stops a request body can list; a stop may come without a name.
StopInputs == [name : {"Gate", "Mill", ""}, arrivalTime : {"07:10"}]
StopLists == UNION {[1..n -> StopInputs] : n \in 0..MaxBatch}

\* The body's stops field: absent (or not an array), or an array.
NoStops == [given |-> FALSE, list |-> <<>>]
GivenStops(list) == [given |-> TRUE, list |-> list]

\* stops.map((stop, index) => ({ bus_id, name, arrival_time, stop_order: index + 1 }))
StopsData(list) ==
    [i \in 1..Len(list) |->
        [name |-> list[i].name, arrival_time |-> list[i].arrivalTime,
         stop_order |-> i]]

\* tx.busStop.deleteMany({ where: { bus_id: id } })
KeepStops(rows) == rows
DeleteManyStops(rows) == <<>>

\* tx.busStop.createMany({ data: stopsData })
CreateManyStops(rows, data) == rows \o data

\* The stops table is not part of the migration at hand: whether it takes a
\* stop without a name is left open (refuses = TRUE: createMany throws).
Refused(list, refuses) ==
    refuses /\ \E i \in 1..Len(list) : list[i].name = ""

\* The buses and their stops as one value, for the transaction.
Fleet == [buses |-> buses, busStops |-> busStops]

CommitFleet(fleet) ==
    \E f \in {fleet} :
        /\ buses' = f.buses
        /\ busStops' = f.busStops

BusSeq == SetToSeq(BusIds)
NewBusId ==
    BusSeq[CHOOSE i \in 1..Len(BusSeq) :
              /\ ~buses[BusSeq[i]].exists
              /\ \A j \in 1..(i - 1) : buses[BusSeq[j]].exists]

NumberTaken(number) ==
    \E b \in BusIds : buses[b].exists /\ buses[b].number = number

\* The transaction callback of newBus.
NewBusCallback(q, refuses) ==
    LET id == NewBusId
        created == [buses EXCEPT ![id] =
                       [exists |-> TRUE, number |-> q.number, driver_id |-> ""]]
    IN  IF q.stops.given /\ Len(q.stops.list) > 0
        THEN IF Refused(q.stops.list, refuses)
             THEN Outcome([buses |-> created, busStops |-> busStops], 500, "", 0)
             ELSE Outcome([buses |-> created,
                           busStops |-> [busStops EXCEPT ![id] =
                               CreateManyStops(<<>>, StopsData(q.stops.list))]],
                          201, "", Len(q.stops.list))
        ELSE Outcome([buses |-> created, busStops |-> busStops], 201, "", 0)

NewBus(q, refuses) ==
    IF ~q.valid
    THEN /\ Reply("newBus", q, 400, "Please provide all required bus and route details.", 0)
         /\ UNCHANGED <<Tables, HrTables, SideTables, procs>>
    ELSE IF NumberTaken(q.number)
    THEN /\ Reply("newBus", q, 400, "A bus with this number already exists.", 0)
         /\ UNCHANGED <<Tables, HrTables, SideTables, procs>>
    ELSE /\ \E b \in BusIds : ~buses[b].exists
         /\ \E r \in {NewBusCallback(q, refuses)} :
               /\ CommitFleet(Transaction(Fleet, r))
               /\ Reply("newBus", q, r.status, r.err, r.count)
         /\ UNCHANGED <<Tables, HrTables, timetables, slots, procs>>

\* The transaction callback of updateBus: the bus row, then the stops.
UpdateBusCallback(q, refuses) ==
    LET id == q.id
        updated == [buses EXCEPT ![id] =
                       [@ EXCEPT !.number = IF q.number # "" THEN q.number ELSE @,
                                 !.driver_id = IF q.driverId # "" THEN q.driverId ELSE @]]
        deleted == [busStops EXCEPT ![id] = DeleteManyStops(@)]
    IN  IF q.driverId # "" /\ q.driverId \notin EmployeeIds
        THEN Outcome(Fleet, 500, "", 0)
        ELSE IF ~q.stops.given
        THEN Outcome([buses |-> updated, busStops |-> busStops], 200, "",
                     Len(busStops[id]))
        ELSE IF Len(q.stops.list) = 0
        THEN Outcome([buses |-> updated, busStops |-> deleted], 200, "", 0)
        ELSE IF Refused(q.stops.list, refuses)
        THEN Outcome([buses |-> updated, busStops |-> deleted], 500, "", 0)
        ELSE Outcome([buses |-> updated,
                      busStops |-> [deleted EXCEPT ![id] =
                          CreateManyStops(@, StopsData(q.stops.list))]],
                     200, "", Len(q.stops.list))

UpdateBus(q, refuses) ==
    IF q.id \notin BusIds \/ ~buses[q.id].exists
    THEN /\ Reply("updateBus", q, 404, "Bus not found.", 0)
         /\ UNCHANGED <<Tables, HrTables, SideTables, procs>>
    ELSE IF q.number # "" /\ q.number # buses[q.id].number /\ NumberTaken(q.number)
    THEN /\ Reply("updateBus", q, 400, "A bus with this number already exists.", 0)
         /\ UNCHANGED <<Tables, HrTables, SideTables, procs>>
    ELSE /\ \E r \in {UpdateBusCallback(q, refuses)} :
               /\ CommitFleet(Transaction(Fleet, r))
               /\ Reply("updateBus", q, r.status, r.err, r.count)
         /\ UNCHANGED <<Tables, HrTables, timetables, slots, procs>>

\* deleteBus: the stops go with the bus (onDelete: Cascade).
DeleteBus(q) ==
    IF q.id \notin BusIds \/ ~buses[q.id].exists
    THEN /\ Reply("deleteBus", q, 404, "Bus not found.", 0)
         /\ UNCHANGED <<Tables, HrTables, SideTables, procs>>
    ELSE /\ buses' = [buses EXCEPT ![q.id] = NoRow]
         /\ busStops' = [busStops EXCEPT ![q.id] = <<>>]
         /\ Reply("deleteBus", q, 200, "", 0)
         /\ UNCHANGED <<Tables, HrTables, timetables, slots, procs>>

\* ------------------------- createTimetable, updateTimetable, deleteTimetable
AcademicYearIds == {"Y1", "Y2"}

\* The slots a request body can list; "zzz" names no subject.
SlotInputs ==
    {[day_of_week |-> "MONDAY", subject_id |-> "phy"],
     [day_of_week |-> "TUESDAY", subject_id |-> ""],
     [day_of_week |-> "MONDAY", subject_id |-> "zzz"]}

\* The body's slots field: absent, or an array.
NoSlots == [given |-> FALSE, list |-> <<>>]
GivenSlots(list) == [given |-> TRUE, list |-> list]

\* slots.map(slot => ({ day_of_week, ..., subject_id: slot.subject_id || null }))
SlotRows(list) ==
    [i \in 1..Len(list) |->
        [day_of_week |-> list[i].day_of_week, subject_id |-> list[i].subject_id]]

\* timetable_slots_subject_id_fkey
SlotsReferToSubjects(list) ==
    \A i \in 1..Len(list) :
        list[i].subject_id = "" \/ list[i].subject_id \in SubjectIds

\* timetables_class_id_fkey, timetables_academic_year_id_fkey
PairRefersToRows(classId, yearId) ==
    /\ classId \in ClassIds /\ classes[classId].exists
    /\ yearId \in AcademicYearIds

\* timetables_class_id_academic_year_id_key, as seen by the row x
PairTaken(tt, x, classId, yearId) ==
    \E y \in TimetableIds \ {x} :
        /\ tt[y].exists
        /\ tt[y].class_id = classId
        /\ tt[y].academic_year_id = yearId

TimetableSeq == SetToSeq(TimetableIds)
NewTimetableId ==
    TimetableSeq[CHOOSE i \in 1..Len(TimetableSeq) :
                    /\ ~timetables[TimetableSeq[i]].exists
                    /\ \A j \in 1..(i - 1) : timetables[TimetableSeq[j]].exists]

\* The timetables and their slots as one value, for the transaction.
Schedule == [timetables |-> timetables, slots |-> slots]

CommitSchedule(schedule) ==
    \E s \in {schedule} :
        /\ timetables' = s.timetables
        /\ slots' = s.slots

\* The transaction callback of createTimetable: the row with its slots nested.
CreateTimetableCallback(q) ==
    LET id == NewTimetableId
    IN  IF ~PairRefersToRows(q.class_id, q.academic_year_id)
           \/ ~SlotsReferToSubjects(q.slots.list)
        THEN Outcome(Schedule, 400, "Invalid data: One of the provided IDs does not exist.", 0)
        ELSE Outcome([timetables |-> [timetables EXCEPT ![id] =
                          [exists |-> TRUE, class_id |-> q.class_id,
                           academic_year_id |-> q.academic_year_id]],
                      slots |-> [slots EXCEPT ![id] = SlotRows(q.slots.list)]],
                     201, "", Len(q.slots.list))

CreateTimetable(q) ==
    IF q.class_id = "" \/ q.academic_year_id = ""
    THEN /\ Reply("createTimetable", q, 400, "Class ID and Academic Year ID are required.", 0)
         /\ UNCHANGED <<Tables, HrTables, SideTables, procs>>
    ELSE IF ~q.slots.given \/ Len(q.slots.list) = 0
    THEN /\ Reply("createTimetable", q, 400, "Timetable slots must be provided as a non-empty array.", 0)
         /\ UNCHANGED <<Tables, HrTables, SideTables, procs>>
    ELSE IF q.user_id = ""
    THEN /\ Reply("createTimetable", q, 401, "User not authenticated. Cannot create timetable.", 0)
         /\ UNCHANGED <<Tables, HrTables, SideTables, procs>>
    ELSE IF PairTaken(timetables, "", q.class_id, q.academic_year_id)
    THEN /\ Reply("createTimetable", q, 409, "Timetable for this Class and Academic Year already exists.", 0)
         /\ UNCHANGED <<Tables, HrTables, SideTables, procs>>
    ELSE /\ \E x \in TimetableIds : ~timetables[x].exists
         /\ \E r \in {CreateTimetableCallback(q)} :
               /\ CommitSchedule(Transaction(Schedule, r))
               /\ Reply("createTimetable", q, r.status, r.err, r.count)
         /\ UNCHANGED <<Tables, HrTables, buses, busStops, procs>>

\* router.put('/timetable/:id', updateTimetable): the parameters the route
\* binds, and what reading one of them by name gives (undefined as "").
RouteParams(id) == [id |-> id]
ParamOf(params, name) ==
    IF name \in DOMAIN params THEN params[name] ELSE ""

\* The transaction callback of updateTimetable.  clientHasColumns: whether
\* the generated client knows updated_by_id, createdAt and updatedAt, which
\* the migration's timetables table does not have.
UpdateTimetableCallback(q, timetableId, clientHasColumns) ==
    IF timetableId \notin TimetableIds \/ ~timetables[timetableId].exists
    THEN Outcome(Schedule, 404, "Timetable not found.", 0)
    ELSE LET old == timetables[timetableId]
             classId == IF q.class_id # "" THEN q.class_id ELSE old.class_id
             yearId == IF q.academic_year_id # "" THEN q.academic_year_id
                       ELSE old.academic_year_id
             replace == q.slots.given /\ Len(q.slots.list) > 0
             deleted == IF replace THEN [slots EXCEPT ![timetableId] = <<>>]
                        ELSE slots
             view == [timetables |-> timetables, slots |-> deleted]
         IN  IF ~clientHasColumns
             THEN Outcome(view, 500, "", 0)
             ELSE IF ~PairRefersToRows(classId, yearId)
                     \/ (replace /\ ~SlotsReferToSubjects(q.slots.list))
             THEN Outcome(view, 400, "Invalid data: One of the provided IDs does not exist.", 0)
             ELSE IF PairTaken(timetables, timetableId, classId, yearId)
             THEN Outcome(view, 500, "", 0)
             ELSE Outcome([timetables |-> [timetables EXCEPT ![timetableId] =
                               [exists |-> TRUE, class_id |-> classId,
                                academic_year_id |-> yearId]],
                           slots |-> IF replace
                                     THEN [deleted EXCEPT ![timetableId] =
                                              SlotRows(q.slots.list)]
                                     ELSE slots],
                          200, "", Len(q.slots.list))

UpdateTimetable(q, clientHasColumns) ==
    LET timetableId == ParamOf(q.params, "timetableId")
    IN  IF timetableId = ""
        THEN /\ Reply("updateTimetable", q, 400, "Timetable ID is required to update.", 0)
             /\ UNCHANGED <<Tables, HrTables, SideTables, procs>>
        ELSE IF q.class_id = "" /\ q.academic_year_id = ""
                /\ (~q.slots.given \/ Len(q.slots.list) = 0)
        THEN /\ Reply("updateTimetable", q, 400, "No update data provided.", 0)
             /\ UNCHANGED <<Tables, HrTables, SideTables, procs>>
        ELSE IF q.slots.given /\ Len(q.slots.list) = 0
        THEN /\ Reply("updateTimetable", q, 400, "Timetable slots must be provided as a non-empty array if updating.", 0)
             /\ UNCHANGED <<Tables, HrTables, SideTables, procs>>
        ELSE IF q.user_id = ""
        THEN /\ Reply("updateTimetable", q, 401, "User not authenticated. Cannot update timetable.", 0)
             /\ UNCHANGED <<Tables, HrTables, SideTables, procs>>
        ELSE /\ \E r \in {UpdateTimetableCallback(q, timetableId, clientHasColumns)} :
                   /\ CommitSchedule(Transaction(Schedule, r))
                   /\ Reply("updateTimetable", q, r.status, r.err, r.count)
             /\ UNCHANGED <<Tables, HrTables, buses, busStops, procs>>

\* deleteTimetable: the slots go with the timetable (ON DELETE CASCADE).
DeleteTimetable(q) ==
    IF q.id \notin TimetableIds \/ ~timetables[q.id].exists
    THEN /\ Reply("deleteTimetable", q, 404, "Timetable not found.", 0)
         /\ UNCHANGED <<Tables, HrTables, SideTables, procs>>
    ELSE /\ timetables' = [timetables EXCEPT ![q.id] = NoRow]
         /\ slots' = [slots EXCEPT ![q.id] = <<>>]
         /\ Reply("deleteTimetable", q, 200, "", 0)
         /\ UNCHANGED <<Tables, HrTables, buses, busStops, procs>>

\* ------------------------------------------------ deleteSubject, deleteClass
\* timetable_slots_subject_id_fkey: ON DELETE SET NULL
ForgetSubject(sl, id) ==
    [x \in TimetableIds |->
        [i \in 1..Len(sl[x]) |->
            IF sl[x][i].subject_id = id
            THEN [sl[x][i] EXCEPT !.subject_id = ""]
            ELSE sl[x][i]]]

DeleteSubject(q) ==
    IF OfferingsOfSubject(offerings, q.id) # {}
    THEN /\ Reply("deleteSubject", q, 400, "Cannot delete subject. It is assigned to one or more classes.", 0)
         /\ UNCHANGED <<Tables, HrTables, SideTables, procs>>
    ELSE IF q.id \notin SubjectIds \/ ~subjects[q.id].exists
    THEN /\ Reply("deleteSubject", q, 404, "Subject not found.", 0)
         /\ UNCHANGED <<Tables, HrTables, SideTables, procs>>
    ELSE /\ subjects' = [subjects EXCEPT ![q.id] = NoRow]
         /\ slots' = ForgetSubject(slots, q.id)
         /\ Reply("deleteSubject", q, 200, "", 0)
         /\ UNCHANGED <<students, classes, adm, offerings, enr, HrTables,
                        buses, busStops, timetables, procs>>

\* admissions_class_id_fkey, student_attendance_class_id_fkey:
\* ON DELETE RESTRICT
ClassIsReferenced(id) ==
    \/ \E s \in StudentIds : adm[<<s, id>>] > 0
    \/ \E k \in DOMAIN stuAtt : stuAtt[k].exists /\ stuAtt[k].class_id = id

\* timetables_class_id_fkey: ON DELETE CASCADE
TimetablesOfClass(tt, id) ==
    {x \in TimetableIds : tt[x].exists /\ tt[x].class_id = id}

\* deleteClass: prisma.class.delete and nothing before it.  The database
\* refuses when an admission or an attendance row names the class, and
\* otherwise removes the class's offerings (with their enrollments) and its
\* timetables (with their slots) along with the class.
DeleteClass(q) ==
    IF q.id \notin ClassIds \/ ~classes[q.id].exists
    THEN /\ Reply("deleteClass", q, 404, "Class not found.", 0)
         /\ UNCHANGED <<Tables, HrTables, SideTables, procs>>
    ELSE IF ClassIsReferenced(q.id)
    THEN /\ Reply("deleteClass", q, 400, "Cannot delete this class because it has students enrolled.", 0)
         /\ UNCHANGED <<Tables, HrTables, SideTables, procs>>
    ELSE /\ classes' = [classes EXCEPT ![q.id] = NoRow]
         /\ \E st \in {DeleteOfferings(Store, OfferingsOfClass(offerings, q.id))} :
               /\ offerings' = st.offerings
               /\ enr' = st.enr
         /\ timetables' = [x \in TimetableIds |->
                              IF x \in TimetablesOfClass(timetables, q.id)
                              THEN NoRow ELSE timetables[x]]
         /\ slots' = [x \in TimetableIds |->
                         IF x \in TimetablesOfClass(timetables, q.id)
                         THEN <<>> ELSE slots[x]]
         /\ Reply("deleteClass", q, 200, "", 0)
         /\ UNCHANGED <<students, adm, subjects, HrTables, buses, busStops, procs>>

\* ------------------------ addStudentsToClass, one awaited statement a step
\* The handler's transaction names no isolation level, so its statements run
\* at the database's default (read committed): each statement reads what is
\* committed when it runs, and the rows a transaction inserts are seen by
\* the others once it commits.  createMany is the callback's last statement
\* and the commit follows it, so the two are one step.

\* Step B: the capacity pre-check on the count that step A read.
NeverExceeds(count, incoming, capacity) == FALSE
ExceedsCapacity(count, incoming, capacity) == count + incoming > capacity

\* A process that answered: idle again, remembering what it served.
Served(proc, status) == [proc EXCEPT !.pc = "idle", !.status = status]

Finish(p, op, status, err, count) ==
    /\ procs' = [procs EXCEPT ![p] = Served(@, status)]
    /\ resp' = [op |-> op,
                req |-> [classId |-> procs[p].classId,
                         studentIds |-> procs[p].studentIds],
                status |-> status, err |-> err, count |-> count]

\* The request arrives; an empty list is answered before the transaction.
BeginAddStudents(p, classId, studentIds) ==
    /\ procs[p].pc = "idle"
    /\ IF Len(studentIds) = 0
       THEN /\ resp' = [op |-> "addStudentsToClass",
                        req |-> [classId |-> classId, studentIds |-> studentIds],
                        status |-> 400,
                        err |-> "studentIds must be a non-empty array.",
                        count |-> 0]
            /\ UNCHANGED procs
       ELSE /\ procs' = [procs EXCEPT ![p] =
                            [pc |-> "findClass", op |-> "addStudentsToClass",
                             classId |-> classId, studentIds |-> studentIds,
                             seen |-> 0, status |-> 0]]
            /\ UNCHANGED resp
    /\ UNCHANGED <<Tables, HrTables, SideTables>>

\* Steps A and B: tx.class.findUnique with _count.admissions, then the check.
AddFindClass(p) ==
    /\ procs[p].pc = "findClass"
    /\ procs[p].op = "addStudentsToClass"
    /\ LET c == procs[p].classId
       IN  IF ~classes[c].exists
           THEN Finish(p, "addStudentsToClass", 400, "Class not found.", 0)
           ELSE IF ExceedsCapacity(AdmissionCount(adm, c),
                                   Len(procs[p].studentIds), classes[c].capacity)
           THEN Finish(p, "addStudentsToClass", 400, "capacity", 0)
           ELSE /\ procs' = [procs EXCEPT ![p] =
                                [@ EXCEPT !.pc = "findAdmissions",
                                          !.seen = AdmissionCount(adm, c)]]
                /\ UNCHANGED resp
    /\ UNCHANGED <<Tables, HrTables, SideTables>>

\* Step C: tx.admission.findMany on the incoming students.
AddFindAdmissions(p) ==
    /\ procs[p].pc = "findAdmissions"
    /\ IF ExistingAdmissions(Store, procs[p].classId, procs[p].studentIds) # {}
       THEN Finish(p, "addStudentsToClass", 400, "already admitted", 0)
       ELSE /\ procs' = [procs EXCEPT ![p] = [@ EXCEPT !.pc = "createMany"]]
            /\ UNCHANGED resp
    /\ UNCHANGED <<Tables, HrTables, SideTables>>

\* Steps D and E and the commit: tx.admission.createMany.
AddCreateMany(p) ==
    /\ procs[p].pc = "createMany"
    /\ IF ~(Range(procs[p].studentIds) \subseteq students)
       THEN /\ Finish(p, "addStudentsToClass", 400, "foreign key", 0)
            /\ UNCHANGED <<Tables, HrTables, SideTables>>
       ELSE /\ TotalAdmissions(adm) + Len(procs[p].studentIds) <= MaxAdm
            /\ adm' = CreateAdmissions(adm, procs[p].classId, procs[p].studentIds)
            /\ Finish(p, "addStudentsToClass", 201, "", Len(procs[p].studentIds))
            /\ UNCHANGED <<students, classes, offerings, enr, subjects,
                           HrTables, SideTables>>

\* --------------------------- promoteStudents, one awaited statement a step
\* Steps 1 to 4 are reads outside the transaction.  The transaction's first
\* statement updates the admission rows of the listed students and holds
\* them until the commit, so two promotions of one student run their
\* transactions one after the other: the transaction is one step.
FinishPromote(p, status, err, count) ==
    /\ procs' = [procs EXCEPT ![p] = Served(@, status)]
    /\ resp' = [op |-> "promoteStudents",
                req |-> [studentIds |-> procs[p].studentIds,
                         targetClassId |-> procs[p].target],
                status |-> status, err |-> err, count |-> count]

\* The request arrives: validation, steps 1 and 2.
BeginPromote(p, studentIds, target) ==
    /\ procs[p].pc = "idle"
    /\ \E r \in {IF Len(studentIds) = 0
                 THEN Outcome(Store, 400, "studentIds must be a non-empty array.", 0)
                 ELSE IF ~classes[target].exists
                 THEN Outcome(Store, 404, "Target class not found.", 0)
                 ELSE IF AdmissionCount(adm, target) + Len(studentIds)
                            > classes[target].capacity
                 THEN Outcome(Store, 400, "capacity", 0)
                 ELSE Outcome(Store, 0, "", 0)} :
          IF r.status # 0
          THEN /\ Respond("promoteStudents",
                          [studentIds |-> studentIds, targetClassId |-> target], r)
               /\ UNCHANGED procs
          ELSE /\ procs' = [procs EXCEPT ![p] =
                               [pc |-> "currentAdmissions", op |-> "promoteStudents",
                                studentIds |-> studentIds, target |-> target,
                                current |-> {}, targetOfferings |-> {},
                                status |-> 0]]
               /\ UNCHANGED resp
    /\ UNCHANGED <<Tables, HrTables, SideTables>>

\* Step 3: prisma.admission.findMany on the listed students.
PromoteFindAdmissions(p) ==
    /\ procs[p].pc = "currentAdmissions"
    /\ procs' = [procs EXCEPT ![p] =
                    [@ EXCEPT !.pc = "targetOfferings",
                              !.current = CurrentClassIds(Store, procs[p].studentIds)]]
    /\ UNCHANGED <<Tables, HrTables, SideTables, resp>>

\* Step 4: prisma.courseOffering.findMany on the target class.
PromoteFindOfferings(p) ==
    /\ procs[p].pc = "targetOfferings"
    /\ procs' = [procs EXCEPT ![p] =
                    [@ EXCEPT !.pc = "transaction",
                              !.targetOfferings =
                                  OfferingsOfClass(offerings, procs[p].target)]]
    /\ UNCHANGED <<Tables, HrTables, SideTables, resp>>

\* Step 5: the transaction, on what steps 3 and 4 read.
PromoteTransaction(p) ==
    /\ procs[p].pc = "transaction"
    /\ \E r \in {PromoteTx(Store, procs[p].studentIds, procs[p].target,
                           procs[p].current, procs[p].targetOfferings)} :
          /\ \A k \in DOMAIN enr : r.store.enr[k] <= MaxDup
          /\ Commit(Transaction(Store, r))
          /\ FinishPromote(p, r.status, r.err, r.count)
    /\ UNCHANGED <<classes, HrTables, SideTables>>

\* ------------------------------------------------------------ createSubject
SubjectSeq == SetToSeq(SubjectIds)
NewSubjectId(sub) ==
    SubjectSeq[CHOOSE i \in 1..Len(SubjectSeq) :
                  /\ ~sub[SubjectSeq[i]].exists
                  /\ \A j \in 1..(i - 1) : sub[SubjectSeq[j]].exists]

\* Step 6: the classes of the standard and sections, of any academic year.
ClassesOfStandard(standard, sections) ==
    {c \in ClassIds :
        /\ classes[c].exists
        /\ classes[c].standard = standard
        /\ classes[c].section \in Range(sections)}

\* Steps 9 to 11: one enrollment per Admission row of a target class, in the
\* offering created for that class.
EnrollAdmitted(e, a, off, subjectId, cs) ==
    [k \in DOMAIN e |->
        IF /\ off[k[2]].exists
           /\ off[k[2]].subject_id = subjectId
           /\ off[k[2]].class_id \in cs
        THEN e[k] + a[<<k[1], off[k[2]].class_id>>]
        ELSE e[k]]

\* The transaction callback of createSubject.  The subject code is made
\* unique by the handler's counter loop and is not kept here.
CreateSubjectTx(st, q) ==
    IF \E s \in SubjectIds : st.subjects[s].exists /\ st.subjects[s].subject_name = q.name
    THEN Outcome(st, 409, "A subject with this name already exists.", 0)
    ELSE
    LET id == NewSubjectId(st.subjects)
        st1 == [st EXCEPT !.subjects[id] = [exists |-> TRUE, subject_name |-> q.name]]
        targetClasses == ClassesOfStandard(q.standard, q.sections)
        off2 == CreateOfferings(st.offerings, id, targetClasses, q.teacherId,
                                q.isMandatory)
    IN  IF targetClasses = {}
        THEN Outcome(st1, 404, "No classes found", 0)
        ELSE IF q.teacherId \notin TeacherIds
        THEN Outcome(st1, 500, "foreign key", 0)
        ELSE IF ~q.isMandatory
        THEN Outcome([st1 EXCEPT !.offerings = off2], 201, "", 0)
        ELSE Outcome([st1 EXCEPT !.offerings = off2,
                                 !.enr = EnrollAdmitted(@, st.adm, off2, id, targetClasses)],
                     201, "", 0)

CreateSubject(q) ==
    IF q.name = "" \/ Len(q.sections) = 0 \/ q.teacherId = ""
    THEN /\ Reply("createSubject", q, 400, "Please provide all required fields", 0)
         /\ UNCHANGED <<Tables, HrTables, SideTables, procs>>
    ELSE /\ \E s \in SubjectIds : ~subjects[s].exists
         /\ Len(FreeOfferingIds(offerings))
               >= Cardinality(ClassesOfStandard(q.standard, q.sections))
         /\ \E r \in {CreateSubjectTx(Store, q)} :
               /\ \A k \in DOMAIN enr : r.store.enr[k] <= MaxDup
               /\ Commit(Transaction(Store, r))
               /\ Respond("createSubject", q, r)
         /\ UNCHANGED <<classes, HrTables, SideTables, procs>>

\* ------------------------------------------------------- addSubjectsToClass
\* Steps C and D: courseOffering.createMany, one row per element of the
\* list, without a teacher and mandatory by the column's default.
CreateOfferingRows(off, classId, subjectIds) ==
    LET free == FreeOfferingIds(off)
    IN [o \in OfferingIds |->
          IF \E i \in DOMAIN subjectIds \cap DOMAIN free : free[i] = o
          THEN Offering(classId,
                        subjectIds[CHOOSE i \in DOMAIN subjectIds \cap DOMAIN free :
                                      free[i] = o],
                        "", TRUE)
          ELSE off[o]]

\* The transaction callback of addSubjectsToClass.
AddSubjectsTx(st, classId, subjectIds) ==
    IF classId \notin ClassIds \/ ~classes[classId].exists
    THEN Outcome(st, 400, "Class not found.", 0)
    ELSE IF \E o \in OfferingsOfClass(st.offerings, classId) :
               st.offerings[o].subject_id \in Range(subjectIds)
    THEN Outcome(st, 400, "One or more subjects are already assigned to this class.", 0)
    ELSE IF \E i \in 1..Len(subjectIds) :
               subjectIds[i] \notin SubjectIds \/ ~st.subjects[subjectIds[i]].exists
    THEN Outcome(st, 400, "foreign key", 0)
    ELSE Outcome([st EXCEPT !.offerings = CreateOfferingRows(@, classId, subjectIds)],
                 201, "", Len(subjectIds))

AddSubjectsToClass(classId, subjectIds) ==
    /\ Len(FreeOfferingIds(offerings)) >= Len(subjectIds)
    /\ \E r \in {IF Len(subjectIds) = 0
                 THEN Outcome(Store, 400, "subjectIds must be a non-empty array.", 0)
                 ELSE AddSubjectsTx(Store, classId, subjectIds)} :
          /\ Commit(Transaction(Store, r))
          /\ Respond("addSubjectsToClass",
                     [classId |-> classId, subjectIds |-> subjectIds], r)
    /\ UNCHANGED <<classes, HrTables, SideTables, procs>>

\* ------------------------------------------------- deleteSubjectsFromClass
\* courseOffering.deleteMany on (class_id, subject_id), with no look at the
\* enrollments first; 404 when it removed nothing.
DeleteSubjectsFromClass(q) ==
    LET os == OfferingsOfClass(offerings, q.classId)
                 \cap OfferingsOfSubject(offerings, q.subjectId)
    IN IF os = {}
       THEN /\ Reply("deleteSubjectsFromClass", q, 404, "Subject offering not found. The subject may not be assigned to this class.", 0)
            /\ UNCHANGED <<Tables, HrTables, SideTables, procs>>
       ELSE /\ \E st \in {DeleteOfferings(Store, os)} :
                  /\ offerings' = st.offerings
                  /\ enr' = st.enr
            /\ Reply("deleteSubjectsFromClass", q, 200, "", 0)
            /\ UNCHANGED <<students, classes, adm, subjects, HrTables, SideTables, procs>>

\* ---------------------------------------------------- createClass, editClass
\* medium_enum
ValidMediums == {"English", "Hindi", "Gujarati"}

\* employee_role_enum of the seeded employees; any other id names no employee.
EmployeeRole(id) ==
    IF id \in TeacherIds THEN "teacher"
    ELSE IF id \in EmployeeIds THEN "staff"
    ELSE "none"

\* A classes row as createClass and editClass write it.
ClassRow(name, yearId, standard, section, medium, capacity, teacherId) ==
    [exists |-> TRUE, class_name |-> name, academic_year_id |-> yearId,
     standard |-> standard, section |-> section, medium |-> medium,
     capacity |-> capacity, class_teacher_id |-> teacherId]

\* The class_id the database gives the next row.
FreeClassIds(cl) == SelectSeq(ClassSeq, LAMBDA c : ~cl[c].exists)
NewClassId(cl) == FreeClassIds(cl)[1]

\* Step 3: class.findFirst on (academic_year_id, standard, section, medium).
ExistingClass(cl, yearId, standard, section, medium) ==
    {c \in ClassIds :
        /\ cl[c].exists
        /\ cl[c].academic_year_id = yearId
        /\ cl[c].standard = standard
        /\ cl[c].section = section
        /\ cl[c].medium = medium}

\* createClass: validation, the two foreign-key look-ups, the look-up of a
\* class with the same four values, then class.create.  An absent body field
\* is "" (capacity: numeric FALSE stands for a value that is not a number).
CreateClass(q) ==
    /\ FreeClassIds(classes) # <<>>
    /\ IF \/ q.class_name = "" \/ q.academic_year_id = "" \/ q.standard = ""
          \/ q.section = "" \/ q.medium = ""
       THEN /\ Reply("createClass", q, 400, "class_name, academic_year_id, standard, section, medium, and capacity are required.", 0)
            /\ UNCHANGED classes
       ELSE IF ~q.numeric \/ q.capacity <= 0
       THEN /\ Reply("createClass", q, 400, "'capacity' must be a positive integer.", 0)
            /\ UNCHANGED classes
       ELSE IF q.medium \notin ValidMediums
       THEN /\ Reply("createClass", q, 400, "'medium' must be one of", 0)
            /\ UNCHANGED classes
       ELSE IF q.academic_year_id \notin AcademicYearIds
       THEN /\ Reply("createClass", q, 404, "The provided academic_year_id does not exist.", 0)
            /\ UNCHANGED classes
       ELSE IF q.class_teacher_id # "" /\ EmployeeRole(q.class_teacher_id) = "none"
       THEN /\ Reply("createClass", q, 404, "The provided class_teacher_id does not exist.", 0)
            /\ UNCHANGED classes
       ELSE IF q.class_teacher_id # "" /\ EmployeeRole(q.class_teacher_id) \notin {"teacher", "admin"}
       THEN /\ Reply("createClass", q, 400, "The provided class_teacher_id must be an employee with role 'teacher' or 'admin'.", 0)
            /\ UNCHANGED classes
       ELSE IF ExistingClass(classes, q.academic_year_id, q.standard, q.section, q.medium) # {}
       THEN /\ Reply("createClass", q, 409, "A class with the same academic year, standard, section, and medium already exists.", 0)
            /\ UNCHANGED classes
       ELSE /\ classes' = [classes EXCEPT ![NewClassId(classes)] =
                              ClassRow(q.class_name, q.academic_year_id, q.standard,
                                       q.section, q.medium, q.capacity, q.class_teacher_id)]
            /\ Reply("createClass", q, 201, "", 1)
    /\ UNCHANGED <<students, adm, offerings, enr, subjects, HrTables, SideTables, procs>>

\* editClass: validation, then class.update by class_id and nothing else;
\* P2025 (no such row) is answered 404, a teacherId that names no employee
\* fails the foreign key and is answered 500.
EditClass(q) ==
    /\ IF \/ q.name = "" \/ q.standard = "" \/ q.section = "" \/ q.medium = ""
          \/ (q.numeric /\ q.capacity = 0) \/ q.teacherId = ""
       THEN /\ Reply("editClass", q, 400, "Please provide all required fields: name, standard, section, medium, capacity, and teacherId", 0)
            /\ UNCHANGED classes
       ELSE IF ~q.numeric \/ q.capacity < 1
       THEN /\ Reply("editClass", q, 400, "Capacity must be a positive number.", 0)
            /\ UNCHANGED classes
       ELSE IF q.medium \notin ValidMediums
       THEN /\ Reply("editClass", q, 400, "Invalid medium. Must be one of", 0)
            /\ UNCHANGED classes
       ELSE IF q.id \notin ClassIds \/ ~classes[q.id].exists
       THEN /\ Reply("editClass", q, 404, "Class not found. Cannot update a non-existent class.", 0)
            /\ UNCHANGED classes
       ELSE IF EmployeeRole(q.teacherId) = "none"
       THEN /\ Reply("editClass", q, 500, "foreign key", 0)
            /\ UNCHANGED classes
       ELSE /\ classes' = [classes EXCEPT ![q.id] =
                              ClassRow(q.name, classes[q.id].academic_year_id, q.standard,
                                       q.section, q.medium, q.capacity, q.teacherId)]
            /\ Reply("editClass", q, 200, "", 1)
    /\ UNCHANGED <<students, adm, offerings, enr, subjects, HrTables, SideTables, procs>>

\* --------------------------------------------------------------------- Init
NoOfferings == [o \in OfferingIds |-> NoRow]


\* Physics is taught in 10-A and 10-B, Chemistry in 11-A.
SeededOfferings ==
    [o \in OfferingIds |->
        CASE o = "o1" -> Offering("A", "phy", "t1", TRUE)
          [] o = "o2" -> Offering("B", "phy", "t1", FALSE)
          [] o = "o3" -> Offering("C", "chem", "t2", TRUE)
          [] OTHER -> NoRow]

SeededSubjects ==
    [s \in SubjectIds |->
        CASE s = "phy" -> [exists |-> TRUE, subject_name |-> "Physics"]
          [] s = "chem" -> [exists |-> TRUE, subject_name |-> "Chemistry"]
          [] OTHER -> NoRow]

\* No bus and no timetable yet.
InitSide ==
    /\ buses = [b \in BusIds |-> NoRow]
    /\ busStops = [b \in BusIds |-> <<>>]
    /\ timetables = [x \in TimetableIds |-> NoRow]
    /\ slots = [x \in TimetableIds |-> <<>>]
    /\ procs = [p \in ProcIds |-> Idle]

\* No leave, no attendance row; the calendar stands at day 1.
InitHr ==
    /\ InitSide
    /\ leaves = [l \in LeaveIds |-> NoRow]
    /\ history = <<>>
    /\ empAtt = [k \in EmployeeIds \X Days |-> NoRow]
    /\ stuAtt = [k \in StudentIds \X Days |-> NoRow]
    /\ today = 1
    /\ answered = [l \in LeaveIds |-> 0]
    /\ inflight = NoTx

InitStore(off) ==
    /\ InitHr
    /\ students = {"s1"}
    /\ classes = ClassRegistry
    /\ adm = [k \in StudentIds \X ClassIds |-> 0]
    /\ offerings = off
    /\ enr = [k \in StudentIds \X OfferingIds |-> 0]
    /\ subjects = SeededSubjects
    /\ resp = [op |-> "none", req |-> <<>>, status |-> 0, err |-> "", count |-> 0]

\* The admission engine: classes without subjects yet.
InitAdmission == InitStore(NoOfferings)

NextAdmission ==
    \/ \E c \in ClassIds, ids \in Batches(StudentIds) : AddStudentsToClass(c, ids)
    \/ \E c \in ClassIds, s \in StudentIds, v, f \in BOOLEAN : CreateStudent(c, s, v, f)
    \/ \E ids \in Batches(StudentIds), c \in ClassIds : PromoteStudents(ids, c)

SpecAdmission == InitAdmission /\ [][NextAdmission]_vars

NextAddOnly ==
    \E c \in ClassIds, ids \in Batches(StudentIds) : AddStudentsToClass(c, ids)

SpecAddOnly == InitAdmission /\ [][NextAddOnly]_vars

\* The promotion engine: seeded offerings, one student to start with.
InitPromote == InitStore(SeededOfferings)

NextPromote ==
    \/ \E c \in ClassIds, ids \in Batches(StudentIds) : AddStudentsToClass(c, ids)
    \/ \E ids \in Batches(StudentIds), c \in ClassIds : PromoteStudents(ids, c)
    \/ \E s \in SubjectIds, ids \in Batches(StudentIds) : EnrollStudents(s, ids)
    \/ \E c \in ClassIds, s \in StudentIds : DeleteStudentFromClass(c, s)

SpecPromote == InitPromote /\ [][NextPromote]_vars

\* The subject synchronizer: s1 sits in 10-A and s2 in 10-B.
InitSubject ==
    /\ InitHr
    /\ students = StudentIds
    /\ classes = ClassRegistry
    /\ adm = [k \in StudentIds \X ClassIds |->
                 IF k = <<"s1", "A">> \/ k = <<"s2", "B">> THEN 1 ELSE 0]
    /\ offerings = SeededOfferings
    /\ enr = [k \in StudentIds \X OfferingIds |-> 0]
    /\ subjects = SeededSubjects
    /\ resp = [op |-> "none", req |-> <<>>, status |-> 0, err |-> "", count |-> 0]

\* The editSubject request bodies explored.
EditRequests ==
    [subjectId : {"phy", "bio"}, name : SubjectNames, standard : {"10"},
     sections : Batches(Sections), teacherId : {"t2", "t9"},
     isMandatory : {FALSE}]

NextSubject ==
    \/ \E q \in EditRequests : EditSubject(q)
    \/ \E s \in SubjectIds, ids \in Batches(StudentIds) : EnrollStudents(s, ids)

SpecSubject == InitSubject /\ [][NextSubject]_vars

\* The synchronizer on a subject taught in two academic years: Chemistry is
\* taught in 11-A of last year's registry and in 10-A.
SyncOfferings ==
    [SeededOfferings EXCEPT !["o4"] = Offering("A", "chem", "t1", FALSE)]

InitSync ==
    /\ InitHr
    /\ students = StudentIds
    /\ classes = ClassRegistry
    /\ adm = [k \in StudentIds \X ClassIds |->
                 IF k = <<"s1", "A">> \/ k = <<"s2", "B">> THEN 1 ELSE 0]
    /\ offerings = SyncOfferings
    /\ enr = [k \in StudentIds \X OfferingIds |-> 0]
    /\ subjects = SeededSubjects
    /\ resp = [op |-> "none", req |-> <<>>, status |-> 0, err |-> "", count |-> 0]

SyncRequests ==
    [subjectId : {"phy"}, name : {"Physics"}, standard : {"10"},
     sections : Batches(Sections), teacherId : {"t2"}, isMandatory : {TRUE}]
        \cup [subjectId : {"chem"}, name : {"Chemistry"}, standard : {"10"},
              sections : Batches(Sections), teacherId : {"t2"}, isMandatory : {TRUE}]
        \cup [subjectId : {"chem"}, name : {"Physics"}, standard : {"10"},
              sections : {<<"A">>}, teacherId : {"t2"}, isMandatory : {TRUE}]

NextSync ==
    \/ \E q \in SyncRequests : EditSubject(q)
    \/ \E s \in {"phy", "chem"}, ids \in {<<"s1">>, <<"s2">>} : EnrollStudents(s, ids)

SpecSync == InitSync /\ [][NextSync]_vars

\* The staff leave workflow next to manual attendance marking.
LeaveRequests ==
    [employeeId : EmployeeIds, startDate : Days, endDate : Days, reason : {"sick"}]
        \cup [employeeId : {"e1"}, startDate : {1}, endDate : {1}, reason : {""}]

StatusRequests ==
    [leaveId : LeaveIds, status : {"approved", "rejected", "pending", "cancelled"},
     reason : {"ok"}]

\* The front desk marks who checked in on day 2.
DeskMarks ==
    [employeeId : EmployeeIds, date : {Midnight(2)},
     status : {"present"}, checkIn : {"09:00"}, reason : {"desk"}]

NextLeave ==
    \/ \E q \in LeaveRequests : CreateLeaveRequest(q)
    \/ \E q \in StatusRequests : UpdateLeaveStatus(q)
    \/ \E q \in DeskMarks : MarkSingleAttendance(q)

SpecLeave == InitSubject /\ [][NextLeave]_vars

\* The two ways a leave request comes into being, and its decisions.
TeacherLeaves ==
    [employeeId : TeacherIds, startDate : {1, 2}, endDate : {1, 2}, reason : {"trip"}]
        \cup [employeeId : {"t1"}, startDate : {1}, endDate : {1}, reason : {""}]

NextCreation ==
    \/ \E q \in LeaveRequests : CreateLeaveRequest(q)
    \/ \E q \in TeacherLeaves : ApplyForLeave(q)
    \/ \E q \in StatusRequests : UpdateLeaveStatus(q)

SpecCreation == InitSubject /\ [][NextCreation]_vars

\* An approval running statement by statement while other requests arrive.
ApprovalLeaves ==
    [employeeId : {"e1"}, startDate : {1, 2}, endDate : {2, 3}, reason : {"sick"}]

ApprovalRequests ==
    [leaveId : LeaveIds, status : {"approved", "rejected", "bogus"}, reason : {"ok"}]

NextApproval ==
    \/ \E q \in ApprovalLeaves : CreateLeaveRequest(q)
    \/ \E q \in ApprovalRequests : BeginUpdateLeaveStatus(q)
    \/ TxStatement
    \/ TxThrow
    \/ TxCommit
    \/ \E q \in DeskMarks : MarkSingleAttendance(q)

SpecApproval == InitSubject /\ [][NextApproval]_vars

\* The attendance registers: the desk's single and bulk marks for employees,
\* the admin's and the class teacher's sheets for students.
SingleMarks ==
    [employeeId : {"e1"}, date : Instants, status : {"present"},
     checkIn : {"null"}, reason : {"desk"}]
        \cup [employeeId : {"e1"}, date : {Midnight(1)}, status : {"bogus"},
              checkIn : {"null"}, reason : {"desk"}]

BulkMarks ==
    [employeeIds : {<<"e2", "e1">>}, startDate : Instants,
     endDate : Instants, status : {"absent"}, reason : {"strike"}]
        \cup [employeeIds : {<<>>, <<"e1">>}, startDate : {Midnight(1)},
              endDate : {Midnight(2)}, status : {"bogus"}, reason : {"strike"}]

AdminRecords == [studentId : {"s1"}, status : {"present", "absent"}, remarks : {"note"}]
AdminSheets ==
    [standard : {"10"}, section : {"A"}, date : {1}, attendanceData : Batches(AdminRecords)]
        \cup [standard : {"10"}, section : {"C"}, date : {1},
              attendanceData : {<<[studentId |-> "s1", status |-> "present", remarks |-> "note"]>>}]

TeacherRecords == [studentId : {"s1"}, status : {"late", "bogus"}]
TeacherSheets ==
    [employeeId : {"t1"}, classId : {"A"}, date : {Midnight(1)},
     attendanceData : Batches(TeacherRecords)]
        \cup [employeeId : {"t2"}, classId : {"A"}, date : {Midnight(1)},
              attendanceData : {<<[studentId |-> "s1", status |-> "late"]>>}]

NextAttendance ==
    \/ \E q \in SingleMarks : MarkSingleAttendance(q)
    \/ \E q \in BulkMarks : MarkBulkAttendance(q)
    \/ \E q \in AdminSheets : UpsertStudentAttendance(q)
    \/ \E q \in TeacherSheets : SubmitAttendance(q)

SpecAttendance == InitSubject /\ [][NextAttendance]_vars

\* Batches that name people without a row ("s9", "e9"), leave out the
\* student id ("") or carry a status outside the enum.
BatchAdminRecords ==
    [studentId : {"s1", "s9"}, status : {"present"}, remarks : {"note"}]
        \cup [studentId : {"s1"}, status : {"absent", "bogus"}, remarks : {"note"}]
        \cup [studentId : {""}, status : {"present"}, remarks : {"note"}]

BatchAdminSheets ==
    [standard : {"10"}, section : {"A"}, date : {1},
     attendanceData : Batches(BatchAdminRecords)]

BatchTeacherRecords ==
    [studentId : {"s2", "s9"}, status : {"late"}]
        \cup [studentId : {"s2"}, status : {"absent", "bogus"}]

BatchTeacherSheets ==
    [employeeId : {"t2"}, classId : {"B"}, date : {Midnight(1)},
     attendanceData : Batches(BatchTeacherRecords)]

BatchBulkMarks ==
    [employeeIds : {<<"e1">>, <<"e1", "e9">>, <<"e9", "e1">>, <<"e1", "e2">>},
     startDate : {Midnight(1)}, endDate : {Midnight(1), Midnight(2)},
     status : {"absent", "late"}, reason : {"strike"}]
        \cup [employeeIds : {<<"e1">>}, startDate : {Midnight(1)},
              endDate : {Midnight(1)}, status : {"bogus"}, reason : {"strike"}]

NextBatch ==
    \/ \E q \in BatchAdminSheets : UpsertStudentAttendance(q)
    \/ \E q \in BatchTeacherSheets : SubmitAttendance(q)
    \/ \E q \in BatchBulkMarks : MarkBulkAttendance(q)

SpecBatch == InitSubject /\ [][NextBatch]_vars

\* Students marking and cancelling their own leaves while the days pass.
StudentLeaves ==
    [userId : StudentIds, fromDate : Days, toDate : Days, reason : {"flu"}]
        \cup [userId : {"s1"}, fromDate : {1}, toDate : {1}, reason : {""}]

Cancellations == [userId : StudentIds, id : StudentIds \X Days]

NextStudentLeave ==
    \/ \E q \in StudentLeaves : CreateLeave(q)
    \/ \E q \in Cancellations : CancelLeave(q)
    \/ Tick

SpecStudentLeave == InitSubject /\ [][NextStudentLeave]_vars

\* Leaves lying in the future: the calendar stands on the day before the
\* first day of the register.  s1 asks for leaves with two reasons, s2 for
\* one day.
InitCancel ==
    /\ leaves = [l \in LeaveIds |-> NoRow]
    /\ history = <<>>
    /\ empAtt = [k \in EmployeeIds \X Days |-> NoRow]
    /\ stuAtt = [k \in StudentIds \X Days |-> NoRow]
    /\ today = 0
    /\ answered = [l \in LeaveIds |-> 0]
    /\ inflight = NoTx
    /\ InitSide
    /\ students = StudentIds
    /\ classes = ClassRegistry
    /\ adm = [k \in StudentIds \X ClassIds |->
                 IF k = <<"s1", "A">> \/ k = <<"s2", "B">> THEN 1 ELSE 0]
    /\ offerings = SeededOfferings
    /\ enr = [k \in StudentIds \X OfferingIds |-> 0]
    /\ subjects = SeededSubjects
    /\ resp = [op |-> "none", req |-> <<>>, status |-> 0, err |-> "", count |-> 0]

FutureLeaves ==
    [userId : {"s1"}, fromDate : Days, toDate : Days, reason : {"flu", "trip"}]
        \cup [userId : {"s2"}, fromDate : {2}, toDate : {2}, reason : {"flu"}]

FutureCancellations == [userId : {"s1"}, id : StudentIds \X Days]

NextCancel ==
    \/ \E q \in FutureLeaves : CreateLeave(q)
    \/ \E q \in FutureCancellations : CancelLeave(q)
    \/ Tick

SpecCancel == InitCancel /\ [][NextCancel]_vars

\* ------------------------------------------------------------- transport
NewBusRequests ==
    [valid : {TRUE}, number : BusNumbers,
     stops : {NoStops, GivenStops(<<>>),
              GivenStops(<<[name |-> "Gate", arrivalTime |-> "07:10"],
                           [name |-> "Mill", arrivalTime |-> "07:10"]>>),
              GivenStops(<<[name |-> "", arrivalTime |-> "07:10"]>>)}]
        \cup {[valid |-> FALSE, number |-> "", stops |-> NoStops]}

OneStop == GivenStops(<<[name |-> "Gate", arrivalTime |-> "07:10"]>>)
UpdateBusRequests ==
    [id : BusIds, number : {""}, driverId : {""},
     stops : {NoStops} \cup {GivenStops(l) : l \in StopLists}]
        \cup {[id |-> "b9", number |-> "", driverId |-> "", stops |-> OneStop],
              [id |-> "b1", number |-> "GJ-05", driverId |-> "", stops |-> OneStop],
              [id |-> "b1", number |-> "", driverId |-> "e1", stops |-> OneStop],
              [id |-> "b1", number |-> "", driverId |-> "e9", stops |-> OneStop]}

NextBus ==
    \/ \E q \in NewBusRequests, refuses \in BOOLEAN : NewBus(q, refuses)
    \/ \E q \in UpdateBusRequests, refuses \in BOOLEAN : UpdateBus(q, refuses)
    \/ \E q \in [id : BusIds \cup {"b9"}] : DeleteBus(q)

SpecBus == InitSubject /\ [][NextBus]_vars

\* ------------------------------------------------------------- timetables
Monday == [day_of_week |-> "MONDAY", subject_id |-> "phy"]
Tuesday == [day_of_week |-> "TUESDAY", subject_id |-> ""]
NoSubject == [day_of_week |-> "MONDAY", subject_id |-> "zzz"]

CreateTimetableRequests ==
    [class_id : {"A", "B"}, academic_year_id : AcademicYearIds, user_id : {"u1"},
     slots : {GivenSlots(<<Monday>>), GivenSlots(<<Monday, Tuesday>>),
              GivenSlots(<<NoSubject>>)}]
        \cup [class_id : {"", "X"}, academic_year_id : {"Y1"}, user_id : {"u1"},
              slots : {GivenSlots(<<Monday>>)}]
        \cup [class_id : {"A"}, academic_year_id : {"Y1"}, user_id : {"u1", ""},
              slots : {NoSlots, GivenSlots(<<>>), GivenSlots(<<Monday>>)}]

UpdateTimetableRequests ==
    [params : {RouteParams(x) : x \in TimetableIds \cup {"tt9"}},
     class_id : {"", "B"}, academic_year_id : {""}, user_id : {"u1"},
     slots : {NoSlots, GivenSlots(<<Tuesday>>), GivenSlots(<<Tuesday, Monday>>),
              GivenSlots(<<NoSubject>>)}]

NextTimetable ==
    \/ \E q \in CreateTimetableRequests : CreateTimetable(q)
    \/ \E q \in UpdateTimetableRequests, clientHasColumns \in BOOLEAN :
          UpdateTimetable(q, clientHasColumns)
    \/ \E q \in [id : TimetableIds \cup {"tt9"}] : DeleteTimetable(q)

SpecTimetable == InitSubject /\ [][NextTimetable]_vars

\* ---------------------------------------------------------------- deletions
GuardTimetables ==
    [class_id : {"A", "C"}, academic_year_id : {"Y1"}, user_id : {"u1"},
     slots : {GivenSlots(<<Monday>>), GivenSlots(<<Monday, Tuesday>>)}]

NextGuard ==
    \/ \E q \in [id : SubjectIds \cup {"zzz"}] : DeleteSubject(q)
    \/ \E q \in [id : ClassIds] : DeleteClass(q)
    \/ \E c \in {"A", "B"}, s \in StudentIds : DeleteStudentFromClass(c, s)
    \/ \E s \in {"phy", "chem"}, ids \in {<<"s1">>, <<"s2">>} : EnrollStudents(s, ids)
    \/ \E q \in GuardTimetables : CreateTimetable(q)

SpecGuard == InitSync /\ [][NextGuard]_vars

\* ------------------------------------------------- concurrent admissions
\* Both students exist and hold no admission.
InitRace ==
    /\ InitHr
    /\ students = StudentIds
    /\ classes = ClassRegistry
    /\ adm = [k \in StudentIds \X ClassIds |-> 0]
    /\ offerings = NoOfferings
    /\ enr = [k \in StudentIds \X OfferingIds |-> 0]
    /\ subjects = SeededSubjects
    /\ resp = [op |-> "none", req |-> <<>>, status |-> 0, err |-> "", count |-> 0]

RaceBatches == {<<>>, <<"s1">>, <<"s2">>, <<"s1", "s2">>}

NextRace ==
    \/ \E p \in ProcIds, c \in {"B", "X"}, ids \in RaceBatches :
          BeginAddStudents(p, c, ids)
    \/ \E p \in ProcIds : AddFindClass(p)
    \/ \E p \in ProcIds : AddFindAdmissions(p)
    \/ \E p \in ProcIds : AddCreateMany(p)
    \/ \E s \in StudentIds : DeleteStudentFromClass("B", s)

SpecRace == InitRace /\ [][NextRace]_vars

\* -------------------------------------------------- concurrent promotions
\* Both students sit in 10-A and follow its subject.
InitPromoteRace ==
    /\ InitHr
    /\ students = StudentIds
    /\ classes = ClassRegistry
    /\ adm = [k \in StudentIds \X ClassIds |-> IF k[2] = "A" THEN 1 ELSE 0]
    /\ offerings = SeededOfferings
    /\ enr = [k \in StudentIds \X OfferingIds |-> IF k[2] = "o1" THEN 1 ELSE 0]
    /\ subjects = SeededSubjects
    /\ resp = [op |-> "none", req |-> <<>>, status |-> 0, err |-> "", count |-> 0]

NextPromoteRace ==
    \/ \E p \in ProcIds, ids \in {<<>>, <<"s1">>, <<"s1", "s2">>},
          c \in {"B", "C", "X"} : BeginPromote(p, ids, c)
    \/ \E p \in ProcIds : PromoteFindAdmissions(p)
    \/ \E p \in ProcIds : PromoteFindOfferings(p)
    \/ \E p \in ProcIds : PromoteTransaction(p)

SpecPromoteRace == InitPromoteRace /\ [][NextPromoteRace]_vars

\* --------------------------------------------------------- the enrollments
\* s1 sits in 10-A and follows its subject; s2 is not registered yet.
InitEnrollment ==
    /\ InitHr
    /\ students = {"s1"}
    /\ classes = ClassRegistry
    /\ adm = [k \in StudentIds \X ClassIds |-> IF k = <<"s1", "A">> THEN 1 ELSE 0]
    /\ offerings = SeededOfferings
    /\ enr = [k \in StudentIds \X OfferingIds |-> IF k = <<"s1", "o1">> THEN 1 ELSE 0]
    /\ subjects = SeededSubjects
    /\ resp = [op |-> "none", req |-> <<>>, status |-> 0, err |-> "", count |-> 0]

NewSubjects ==
    [name : {"Optics", "Physics", ""}, standard : {"10"},
     sections : {<<"A">>, <<"A", "B">>}, teacherId : {"t1"},
     isMandatory : BOOLEAN]
        \cup [name : {"Optics"}, standard : {"10", "12"}, sections : {<<"A">>},
              teacherId : {"t1", "t9"}, isMandatory : {TRUE}]

NextEnrollment ==
    \/ \E c \in {"A", "B"}, v, f \in BOOLEAN : CreateStudent(c, "s2", v, f)
    \/ \E q \in NewSubjects : CreateSubject(q)
    \/ \E s \in {"phy", "bio"}, ids \in Batches(StudentIds) : EnrollStudents(s, ids)
    \/ \E ids \in Batches(StudentIds), c \in {"A", "C"} : PromoteStudents(ids, c)

SpecEnrollment == InitEnrollment /\ [][NextEnrollment]_vars

\* ----------------------------------------------------------- the offerings
OfferingEdits ==
    [subjectId : {"phy"}, name : {"Physics"}, standard : {"10"},
     sections : {<<"A">>, <<"B">>, <<"A", "B">>}, teacherId : {"t2"},
     isMandatory : {FALSE}]

OfferedSubjects ==
    [name : {"Optics"}, standard : {"10"}, sections : {<<"A">>, <<"A", "B">>},
     teacherId : {"t1"}, isMandatory : {FALSE}]

NextOffering ==
    \/ \E q \in OfferedSubjects : CreateSubject(q)
    \/ \E c \in {"A", "B", "X"}, ids \in Batches({"phy", "chem"}) :
          AddSubjectsToClass(c, ids)
    \/ \E q \in OfferingEdits : EditSubject(q)

SpecOffering == InitAdmission /\ [][NextOffering]_vars

\* ------------------------------------------------------ offering removal
CascadeEdits ==
    [subjectId : {"phy", "chem"}, name : {"Physics"}, standard : {"10"},
     sections : {<<"A">>, <<"B">>}, teacherId : {"t2"}, isMandatory : {TRUE}]

NextCascade ==
    \/ \E q \in CascadeEdits : EditSubject(q)
    \/ \E q \in [classId : {"A", "B"}, subjectId : {"phy", "chem"}] :
          DeleteSubjectsFromClass(q)
    \/ \E q \in [id : ClassIds] : DeleteClass(q)
    \/ \E c \in {"A", "B"}, s \in StudentIds : DeleteStudentFromClass(c, s)
    \/ \E s \in {"phy", "chem"}, ids \in {<<"s1">>, <<"s2">>} : EnrollStudents(s, ids)

SpecCascade == InitSync /\ [][NextCascade]_vars

\* ------------------------------------------- enrollments follow admissions
NextAdmitted ==
    \/ \E ids \in {<<"s1">>, <<"s2">>} : AddStudentsToClass("A", ids)
    \/ \E c \in {"A", "B"}, s \in StudentIds : DeleteStudentFromClass(c, s)
    \/ \E ids \in {<<"s1">>, <<"s2">>} : EnrollStudents("phy", ids)
    \/ \E v, f \in BOOLEAN : CreateStudent("A", "s2", v, f)
    \/ \E ids \in {<<"s1">>, <<"s1", "s2">>} : PromoteStudents(ids, "B")

SpecAdmitted == InitPromote /\ [][NextAdmitted]_vars

\* ------------------------------------------------------------- the classes
\* 10-A (English) holds both students; 10-B (English) is empty.
ClassRoster ==
    [c \in ClassIds |->
        CASE c = "A" -> ClassRow("10-A", "Y1", "10", "A", "English", MaxCapacity, "t1")
          [] c = "B" -> ClassRow("10-B", "Y1", "10", "B", "English", MaxCapacity, "t2")
          [] OTHER -> NoRow]

InitClass ==
    /\ InitHr
    /\ students = StudentIds
    /\ classes = ClassRoster
    /\ adm = [k \in StudentIds \X ClassIds |-> IF k[2] = "A" THEN 1 ELSE 0]
    /\ offerings = NoOfferings
    /\ enr = [k \in StudentIds \X OfferingIds |-> 0]
    /\ subjects = SeededSubjects
    /\ resp = [op |-> "none", req |-> <<>>, status |-> 0, err |-> "", count |-> 0]

BaseNewClass ==
    [class_name |-> "10-N", academic_year_id |-> "Y1", standard |-> "10",
     section |-> "C", medium |-> "Hindi", numeric |-> TRUE, capacity |-> 1,
     class_teacher_id |-> "t1"]

NewClasses ==
    {[BaseNewClass EXCEPT !.section = x, !.medium = m] :
        x \in {"A", "C"}, m \in {"English", "Hindi"}}
       \cup {[BaseNewClass EXCEPT !.standard = ""],
             [BaseNewClass EXCEPT !.numeric = FALSE],
             [BaseNewClass EXCEPT !.capacity = 0],
             [BaseNewClass EXCEPT !.medium = "French"],
             [BaseNewClass EXCEPT !.academic_year_id = "Y9"],
             [BaseNewClass EXCEPT !.class_teacher_id = ""],
             [BaseNewClass EXCEPT !.class_teacher_id = "t9"],
             [BaseNewClass EXCEPT !.class_teacher_id = "e1"]}

BaseClassEdit ==
    [id |-> "B", name |-> "10-E", standard |-> "10", section |-> "B",
     medium |-> "English", numeric |-> TRUE, capacity |-> 1, teacherId |-> "t1"]

ClassEdits ==
    {[BaseClassEdit EXCEPT !.id = c, !.section = x, !.capacity = n] :
        c \in {"A", "B"}, x \in {"A", "B"}, n \in 1..MaxCapacity}
       \cup {[BaseClassEdit EXCEPT !.name = ""],
             [BaseClassEdit EXCEPT !.numeric = FALSE],
             [BaseClassEdit EXCEPT !.capacity = 0],
             [BaseClassEdit EXCEPT !.medium = "French"],
             [BaseClassEdit EXCEPT !.id = "X"],
             [BaseClassEdit EXCEPT !.teacherId = "t9"]}

NextClass ==
    \/ \E q \in NewClasses : CreateClass(q)
    \/ \E q \in ClassEdits : EditClass(q)

SpecClass == InitClass /\ [][NextClass]_vars

\* ------------------------------------------- decisions on a leave, revised
RevisedLeaves ==
    [employeeId : {"e1"}, startDate : {1, 2}, endDate : {2}, reason : {"sick", "trip"}]
        \cup [employeeId : {"e2"}, startDate : {1}, endDate : {1}, reason : {"", "sick"}]

NextRevision ==
    \/ \E q \in RevisedLeaves : CreateLeaveRequest(q)
    \/ \E q \in StatusRequests : UpdateLeaveStatus(q)

SpecRevision == InitSubject /\ [][NextRevision]_vars

\* ------------------------------------------------- a leave and its cancelling
\* The register before any leave: the admin's sheet of day 2 marks s1 present.
SeededRegister ==
    UpsertEach([k \in StudentIds \X Days |-> NoRow],
               <<[studentId |-> "s1", status |-> "present", remarks |-> "note"]>>,
               1, 2, "A", "admin")

InitRoundTrip ==
    /\ leaves = [l \in LeaveIds |-> NoRow]
    /\ history = <<>>
    /\ empAtt = [k \in EmployeeIds \X Days |-> NoRow]
    /\ stuAtt = SeededRegister
    /\ today = 0
    /\ answered = [l \in LeaveIds |-> 0]
    /\ inflight = NoTx
    /\ InitSide
    /\ students = StudentIds
    /\ classes = ClassRegistry
    /\ adm = [k \in StudentIds \X ClassIds |->
                 IF k = <<"s1", "A">> \/ k = <<"s2", "B">> THEN 1 ELSE 0]
    /\ offerings = SeededOfferings
    /\ enr = [k \in StudentIds \X OfferingIds |-> 0]
    /\ subjects = SeededSubjects
    /\ resp = [op |-> "none", req |-> <<>>, status |-> 0, err |-> "", count |-> 0]

\* The days on which the student's row is a leave row.
LeaveDays(att, s) ==
    {d \in Days : att[<<s, d>>].exists /\ att[<<s, d>>].status = "on_leave"}

RoundTripLeaves ==
    [userId : StudentIds, fromDate : Days, toDate : Days, reason : {"flu"}]
        \cup [userId : {"s1"}, fromDate : {1}, toDate : {1}, reason : {""}]

\* A student asks for a leave that starts after today while holding none,
\* and cancels a leave by its first day.
NextRoundTrip ==
    \/ \E q \in RoundTripLeaves :
          /\ q.fromDate > today
          /\ LeaveDays(stuAtt, q.userId) = {}
          /\ CreateLeave(q)
    \/ \E q \in Cancellations :
          /\ \A d \in LeaveDays(stuAtt, q.id[1]) : q.id[2] <= d
          /\ CancelLeave(q)
    \/ Tick

SpecRoundTrip == InitRoundTrip /\ [][NextRoundTrip]_vars

\* ------------------------------------------------------------------ claims
Years == {classes[c].academic_year_id : c \in {x \in ClassIds : classes[x].exists}}

\* C1: after any sequence of addStudentsToClass, createStudent and
\* promoteStudents requests every class holds at most `capacity` admissions.
C1_CapacityInvariant ==
    \A c \in ClassIds :
        classes[c].exists => AdmissionCount(adm, c) <= classes[c].capacity

\* The cases in which addStudentsToClass must reject the batch.
AddStudentsMustReject(classId, studentIds) ==
    \/ ~classes[classId].exists
    \/ AdmissionCount(adm, classId) + Len(studentIds) > classes[classId].capacity
    \/ \E s \in Range(studentIds) :
          \E c \in ClassesOfYear(classes, classes[classId].academic_year_id) :
              adm[<<s, c>>] > 0

\* C2: addStudentsToClass is all-or-nothing: a batch that exceeds the
\* capacity, names a student already admitted in the class's academic year,
\* or names a missing class is answered with an error and no table changes;
\* no failed request changes a table.
C2_AddStudentsAllOrNothing ==
    [][resp'.op = "addStudentsToClass" =>
          LET classId == resp'.req.classId
              studentIds == resp'.req.studentIds
          IN /\ AddStudentsToClass(classId, studentIds)
             /\ (Len(studentIds) > 0 /\ AddStudentsMustReject(classId, studentIds))
                   => (resp'.status = 400 /\ UNCHANGED Tables)
             /\ resp'.status # 201 => UNCHANGED Tables]_vars

\* A batch of two, one of them already admitted this year and the other not,
\* was rejected, and the other student holds no admission.
C2_Witness ==
    /\ resp.op = "addStudentsToClass"
    /\ resp.status = 400
    /\ resp.err = "already admitted"
    /\ Len(resp.req.studentIds) = 2
    /\ \E s \in Range(resp.req.studentIds) :
          /\ s \in students
          /\ \A c \in ClassesOfYear(classes, classes[resp.req.classId].academic_year_id) :
                adm[<<s, c>>] = 0

\* C3: after any sequence of addStudentsToClass requests, every student
\* holds at most one admission in the classes of any one academic year.
C3_OneAdmissionPerYear ==
    \A s \in StudentIds, y \in Years :
        SumAdm(adm, {<<s, c>> : c \in ClassesOfYear(classes, y)}) <= 1

EnrolledOfferings(e, s) == {o \in OfferingIds : e[<<s, o>>] > 0}

\* C4: when promoteStudents moves a student from a class to another, the
\* offerings the student is enrolled in afterwards are exactly the offerings
\* of the target class, whatever the student was enrolled in before.
C4_PromotionRederivation ==
    [][(resp'.op = "promoteStudents" /\ resp'.status = 200) =>
          LET studentIds == resp'.req.studentIds
              target == resp'.req.targetClassId
          IN /\ PromoteStudents(studentIds, target)
             /\ \A s \in Range(studentIds) :
                   (\E a \in ClassIds \ {target} : adm[<<s, a>>] > 0) =>
                       EnrolledOfferings(enr', s) = OfferingsOfClass(offerings', target)]_vars

\* The subject's offerings that a synchronization to q's sections drops.
OfferingsToDelete(q) ==
    {o \in OfferingsOfSubject(offerings, q.subjectId) :
        offerings[o].class_id \notin TargetClasses(q.standard, q.sections)}

\* The request reaches the removal step: it passes every earlier validation.
ReachesRemoval(q) ==
    /\ Len(q.sections) > 0
    /\ subjects[q.subjectId].exists
    /\ q.teacherId \in TeacherIds
    /\ ActiveYears # {}
    /\ \/ q.name = subjects[q.subjectId].subject_name
       \/ \A s \in SubjectIds \ {q.subjectId} :
             ~(subjects[s].exists /\ subjects[s].subject_name = q.name)
    /\ Cardinality(TargetClasses(q.standard, q.sections)) = Len(q.sections)

\* C5: an editSubject request that would drop the subject from a class whose
\* offering has at least one enrollment is answered 409 with the number of
\* those enrollments, and no offering, enrollment or subject row changes,
\* the subject's name included; no such request, valid or not, changes a row.
C5_OfferingRemovalGuard ==
    [][resp'.op = "editSubject" =>
          LET q == resp'.req
              n == SumEnr(enr, StudentIds \X OfferingsToDelete(q))
          IN /\ EditSubject(q)
             /\ (subjects[q.subjectId].exists /\ n > 0) =>
                   /\ resp'.status >= 400
                   /\ UNCHANGED Tables
                   /\ ReachesRemoval(q) => (resp'.status = 409 /\ resp'.count = n)]_vars

\* A request that renames the subject, drops an enrolled class and adds a
\* class was answered with the conflict.
C5_Witness ==
    /\ resp.op = "editSubject"
    /\ resp.status = 409
    /\ resp.err = "students are enrolled"
    /\ resp.count > 0
    /\ resp.req.name # subjects[resp.req.subjectId].subject_name
    /\ \E c \in TargetClasses(resp.req.standard, resp.req.sections) :
          \A o \in OfferingsOfSubject(offerings, resp.req.subjectId) :
              offerings[o].class_id # c

C7_OneWayTransitions ==
    [][\A l \in LeaveIds :
          (leaves[l].exists /\ leaves'[l].status # leaves[l].status) =>
              /\ leaves[l].status = "pending"
              /\ leaves'[l].status \in {"approved", "rejected"}]_vars

HistoryOf(h, l) == SelectSeq(h, LAMBDA row : row.leave_id = l)

LastStatus(records, s) ==
    records[CHOOSE i \in 1..Len(records) :
               /\ records[i].studentId = s
               /\ \A j \in (i + 1)..Len(records) : records[j].studentId # s].status

\* Every (student, date) a sheet wrote holds the status of its last record.
SheetWritten(q, day) ==
    \A i \in 1..Len(q.attendanceData) :
        LET s == q.attendanceData[i].studentId
        IN /\ stuAtt'[<<s, day>>].exists
           /\ stuAtt'[<<s, day>>].status = LastStatus(q.attendanceData, s)

\* The rows a bulk mark wrote: for every listed employee, the calendar days
\* from the start day to the end day, and no other.
BulkWritten(q) ==
    \A k \in DOMAIN empAtt :
        IF /\ k[1] \in Range(q.employeeIds)
           /\ DateColumn(q.startDate) <= k[2]
           /\ k[2] <= DateColumn(q.endDate)
        THEN /\ empAtt'[k].exists
             /\ empAtt'[k].status = q.status
             /\ empAtt'[k].source = "manual_bulk"
        ELSE empAtt'[k] = empAtt[k]

UpsertOps ==
    {"markSingleAttendance", "markBulkAttendance", "upsertStudentAttendance",
     "submitAttendance"}

\* C8: the attendance registers hold one row per (person, date); an upsert
\* answered 2xx leaves every key it names with the status it gave last;
\* the same upsert again changes no row; a bulk mark from a start day to an
\* end day writes, for each listed employee, one row for each calendar day
\* from the start to the end inclusive.
C8_AttendanceUpserts ==
    [][(resp'.op \in UpsertOps /\ resp'.status \in {200, 201}) =>
          LET q == resp'.req
          IN /\ resp'.op = "markSingleAttendance" =>
                   /\ empAtt'[<<q.employeeId, DateColumn(q.date)>>].exists
                   /\ empAtt'[<<q.employeeId, DateColumn(q.date)>>].status = q.status
             /\ resp'.op = "upsertStudentAttendance" =>
                   SheetWritten(q, DateColumn(Midnight(q.date)))
             /\ resp'.op = "submitAttendance" => SheetWritten(q, DateColumn(q.date))
             /\ (resp.op = resp'.op /\ resp.req = q /\ resp.status = resp'.status) =>
                   (empAtt' = empAtt /\ stuAtt' = stuAtt)
             /\ resp'.op = "markBulkAttendance" => BulkWritten(q)]_vars

\* The first day of the leave a row belongs to: the first of the consecutive
\* on_leave days with the row's remarks that end at the row's day.
RECURSIVE LeaveStart(_, _, _)
LeaveStart(att, s, day) ==
    IF /\ day - 1 \in Days
       /\ att[<<s, day - 1>>].exists
       /\ att[<<s, day - 1>>].status = "on_leave"
       /\ att[<<s, day - 1>>].remarks = att[<<s, day>>].remarks
    THEN LeaveStart(att, s, day - 1)
    ELSE day

\* C10: cancelLeave answers with an error and changes no attendance row
\* when the named row is another student's, is not an on_leave row, or
\* belongs to a leave whose first day is today or earlier.  (A step that
\* leaves the day as it is is a request; the other steps are the passing days.)
C10_CancelLeaveRejects ==
    [][(resp'.op = "cancelLeave" /\ today' = today) =>
          LET q == resp'.req
              row == stuAtt[q.id]
          IN /\ CancelLeave(q)
             /\ (/\ row.exists
                 /\ \/ q.id[1] # q.userId
                    \/ row.status # "on_leave"
                    \/ LeaveStart(stuAtt, q.id[1], q.id[2]) <= today) =>
                   (resp'.status >= 400 /\ stuAtt' = stuAtt)]_vars

\* C11: promoteStudents keeps the target class within its capacity: a
\* request with current count + incoming count > capacity is answered 400 and
\* changes no table; after a request answered 200, whatever the list (students
\* with several admissions, students of the target class, repeated ids), the
\* target class holds at most `capacity` admissions.
C11_PromoteWithinCapacity ==
    [][resp'.op = "promoteStudents" =>
          LET studentIds == resp'.req.studentIds
              target == resp'.req.targetClassId
          IN /\ PromoteStudents(studentIds, target)
             /\ (/\ Len(studentIds) > 0
                 /\ classes[target].exists
                 /\ AdmissionCount(adm, target) + Len(studentIds)
                       > classes[target].capacity) =>
                   (resp'.status = 400 /\ UNCHANGED Tables)
             /\ resp'.status = 200 =>
                   AdmissionCount(adm', target) <= classes[target].capacity]_vars

\* Every student holds at most one admission in the classes of any one year.
OnePerYear(a) ==
    \A s \in StudentIds, y \in Years :
        SumAdm(a, {<<s, c>> : c \in ClassesOfYear(classes, y)}) <= 1

\* C12: if every student holds at most one admission per academic year
\* (possibly one in each of several years) before promoteStudents, every
\* student holds at most one admission per academic year after it.
C12_PromoteKeepsOnePerYear ==
    [][(resp'.op = "promoteStudents" /\ OnePerYear(adm)) =>
          /\ PromoteStudents(resp'.req.studentIds, resp'.req.targetClassId)
          /\ OnePerYear(adm')]_vars

\* C13: after an editSubject request answered 200 the classes holding an
\* offering of the subject are exactly the target classes (the classes of
\* the standard and sections in the active year), one offering each; the
\* offerings of classes in both sets keep their id and carry the requested
\* teacher and mandatory flag, as do the created ones; the offerings of the
\* other subjects and every enrollment row are as before.
C13_SynchronizedOfferings ==
    [][(resp'.op = "editSubject" /\ resp'.status = 200) =>
          LET q == resp'.req
              target == TargetClasses(q.standard, q.sections)
              before == OfferingsOfSubject(offerings, q.subjectId)
              after == OfferingsOfSubject(offerings', q.subjectId)
          IN /\ EditSubject(q)
             /\ {offerings'[o].class_id : o \in after} = target
             /\ Cardinality(after) = Cardinality(target)
             /\ \A o \in before :
                   offerings[o].class_id \in target =>
                       offerings'[o] = Offering(offerings[o].class_id, q.subjectId,
                                                q.teacherId, q.isMandatory)
             /\ \A o \in after :
                   /\ offerings'[o].teacher_id = q.teacherId
                   /\ offerings'[o].is_mandatory = q.isMandatory
             /\ \A o \in OfferingIds :
                   (offerings[o].exists /\ offerings[o].subject_id # q.subjectId) =>
                       offerings'[o] = offerings[o]
             /\ enr' = enr]_vars

\* One request dropped the subject from a class, kept it in a class whose
\* offering has an enrolled student and a different teacher, and added it to
\* a third class.
C13_Witness ==
    /\ resp.op = "editSubject"
    /\ resp.status = 200
    /\ resp.req = [subjectId |-> "chem", name |-> "Chemistry", standard |-> "10",
                   sections |-> <<"A", "B">>, teacherId |-> "t2",
                   isMandatory |-> TRUE]
    /\ offerings["o4"] = Offering("A", "chem", "t2", TRUE)
    /\ enr[<<"s1", "o4">>] = 1
    /\ \E o \in OfferingIds : offerings[o] = Offering("B", "chem", "t2", TRUE)
    /\ \A o \in OfferingIds : offerings[o].exists => offerings[o].class_id # "C"

\* A sheet with an entry that cannot be written: no student id, a student
\* without a row, or a status outside the enum.
BadSheet(records) ==
    \E i \in 1..Len(records) :
        \/ records[i].studentId \notin students
        \/ records[i].status \notin ValidStatuses

\* C14: a batch of upsertStudentAttendance, submitAttendance or
\* markBulkAttendance with an invalid entry (no student id, a status outside
\* the enum) or an entry the database refuses (a person without a row) is
\* answered with an error, and a batch answered with an error leaves both
\* attendance tables exactly as they were, the entries before the bad one
\* included.
C14_BatchAtomicity ==
    [][resp'.op \in {"upsertStudentAttendance", "submitAttendance", "markBulkAttendance"} =>
          LET q == resp'.req
          IN /\ resp'.op = "upsertStudentAttendance" =>
                   /\ UpsertStudentAttendance(q)
                   /\ BadSheet(q.attendanceData) => resp'.status >= 400
             /\ resp'.op = "submitAttendance" =>
                   /\ SubmitAttendance(q)
                   /\ BadSheet(q.attendanceData) => resp'.status >= 400
             /\ resp'.op = "markBulkAttendance" =>
                   /\ MarkBulkAttendance(q)
                   /\ (\/ q.status \notin ValidStatuses
                       \/ \E i \in 1..Len(q.employeeIds) :
                             q.employeeIds[i] \notin EmployeeIds) =>
                         resp'.status >= 400
             /\ resp'.status >= 400 => (empAtt' = empAtt /\ stuAtt' = stuAtt)]_vars

\* A sheet whose first entry would change a row and whose second entry names
\* a student without a row was refused, and the row is as it was.
C14_Witness ==
    /\ resp.op = "upsertStudentAttendance"
    /\ resp.status = 500
    /\ resp.req.attendanceData =
          <<[studentId |-> "s1", status |-> "absent", remarks |-> "note"],
            [studentId |-> "s9", status |-> "present", remarks |-> "note"]>>
    /\ stuAtt[<<"s1", 1>>].exists
    /\ stuAtt[<<"s1", 1>>].status = "present"

\* The attendance keys of the days of a leave.
LeaveKeys(leave) ==
    {k \in DOMAIN empAtt :
        /\ k[1] = leave.employee_id
        /\ leave.start_date <= k[2]
        /\ k[2] <= leave.end_date}

\* C15: the status update, the history row and the attendance upserts of
\* updateLeaveStatus take effect together or not at all: while the
\* transaction runs, the three tables are as other requests left them; when
\* it fails they are as before; when it commits, the status, one history
\* row and, for an approval, the on_leave row of every day of the range
\* appear in one step; no step shows a leave turned approved without the
\* rows of all its days.
C15_ApprovalAtomic ==
    [][/\ (inflight.active /\ inflight'.active /\ inflight' # inflight) =>
             (leaves' = leaves /\ history' = history /\ empAtt' = empAtt)
       /\ (inflight.active /\ ~inflight'.active) =>
             LET q == inflight.req
                 keys == IF q.status = "approved"
                         THEN LeaveKeys(inflight.leave) ELSE {}
             IN /\ resp'.op = "updateLeaveStatus"
                /\ resp'.req = q
                /\ IF resp'.status = 200
                   THEN /\ leaves' = [leaves EXCEPT ![q.leaveId].status = q.status]
                        /\ history' = Append(history,
                                          [leave_id |-> q.leaveId, status |-> q.status,
                                           comment |-> q.reason])
                        /\ \A k \in keys :
                              /\ empAtt'[k].exists
                              /\ empAtt'[k].status = "on_leave"
                              /\ empAtt'[k].remarks = <<"Approved Leave: ", inflight.leave.reason>>
                        /\ \A k \in DOMAIN empAtt \ keys : empAtt'[k] = empAtt[k]
                   ELSE leaves' = leaves /\ history' = history /\ empAtt' = empAtt
       /\ \A l \in LeaveIds :
             (/\ leaves'[l].exists
              /\ leaves'[l].status = "approved"
              /\ leaves[l].status # "approved") =>
                 \A k \in LeaveKeys(leaves'[l]) :
                     empAtt'[k].exists /\ empAtt'[k].status = "on_leave"]_vars

\* The approval of a leave of several days has written the status, the
\* history row and the first day inside its transaction; the stored leave
\* is still pending, without history of the approval and without the row.
C15_Witness ==
    /\ inflight.active
    /\ inflight.req.status = "approved"
    /\ inflight.done = 3
    /\ TxLength(inflight) > 3
    /\ leaves[inflight.req.leaveId].status = "pending"
    /\ ~empAtt[<<inflight.leave.employee_id, inflight.leave.start_date>>].exists
    /\ Len(HistoryOf(history, inflight.req.leaveId)) = 1

\* C16: a leave comes into being with status pending and, in the same step,
\* exactly one history row, of status pending; every leave has its history
\* begin with that row.
C16_CreationWritesHistory ==
    /\ [][\A l \in LeaveIds :
             (~leaves[l].exists /\ leaves'[l].exists) =>
                 /\ leaves'[l].status = "pending"
                 /\ Len(HistoryOf(history', l)) = 1
                 /\ HistoryOf(history', l)[1].status = "pending"]_vars
    /\ [](\A l \in LeaveIds :
             leaves[l].exists =>
                 /\ Len(HistoryOf(history, l)) >= 1
                 /\ HistoryOf(history, l)[1].status = "pending")

\* The longest run of consecutive days from `day` on which the student's
\* row is on_leave with the remarks of the row of `day`.
MaximalRun(att, s, day) ==
    {d \in Days :
        /\ d >= day
        /\ \A x \in day..d :
              /\ att[<<s, x>>].exists
              /\ att[<<s, x>>].status = "on_leave"
              /\ att[<<s, x>>].remarks = att[<<s, day>>].remarks}

C18_StopsReplaced ==
    [][resp'.op = "updateBus" =>
        LET q == resp'.req
            L == q.stops.list
        IN  /\ \A o \in BusIds \ {q.id} : busStops'[o] = busStops[o]
            /\ resp'.status = 200 /\ q.stops.given =>
                  /\ Len(busStops'[q.id]) = Len(L)
                  /\ \A i \in 1..Len(L) :
                        busStops'[q.id][i] =
                            [name |-> L[i].name,
                             arrival_time |-> L[i].arrivalTime,
                             stop_order |-> i]
            /\ resp'.status = 200 /\ ~q.stops.given =>
                  busStops'[q.id] = busStops[q.id]
            /\ resp'.status # 200 => busStops' = busStops]_vars

\* A bus that had stops was given the list <<Mill, Gate>> while the other
\* bus keeps stops of its own.
C18_Witness ==
    /\ resp.op = "updateBus"
    /\ resp.status = 200
    /\ resp.req.stops.given
    /\ Len(resp.req.stops.list) = 2
    /\ resp.req.stops.list[1].name = "Mill"
    /\ resp.req.stops.list[2].name = "Gate"
    /\ busStops[resp.req.id][1].stop_order = 1
    /\ busStops[resp.req.id][1].name = "Mill"
    /\ \E o \in BusIds \ {resp.req.id} : Len(busStops[o]) = 2

\* C19: there is at most one timetable per (class, academic year) pair; an
\* updateTimetable that carries a slots list for an existing timetable and
\* does not move it onto a pair that already has one leaves the timetable
\* owning exactly the supplied slots and none of the old ones; an
\* updateTimetable that fails leaves the previous slots in place.
OnePerPair(tt) ==
    \A x, y \in TimetableIds :
        (/\ tt[x].exists /\ tt[y].exists
         /\ tt[x].class_id = tt[y].class_id
         /\ tt[x].academic_year_id = tt[y].academic_year_id) => x = y

C20_DeleteGuards ==
    [][(\/ /\ resp'.op = "deleteSubject"
           /\ OfferingsOfSubject(offerings, resp'.req.id) # {}
        \/ /\ resp'.op = "deleteClass"
           /\ \/ \E s \in StudentIds : adm[<<s, resp'.req.id>>] > 0
              \/ OfferingsOfClass(offerings, resp'.req.id) # {})
       => /\ resp'.status >= 400
          /\ classes' = classes
          /\ subjects' = subjects
          /\ offerings' = offerings
          /\ enr' = enr
          /\ timetables' = timetables
          /\ slots' = slots]_vars

\* C21: two addStudentsToClass transactions on one class that both read the
\* admission count before either inserts both pass the capacity pre-check
\* and both commit, leaving the class above its capacity.  Every commit has
\* passed the pre-check on the count it read, and a commit takes the class
\* above its capacity only when that count is out of date.
C21_CapacityRace ==
    [][\A p \in ProcIds :
          (/\ procs[p].pc = "createMany"
           /\ procs'[p].pc = "idle"
           /\ procs'[p].status = 201) =>
             LET c == procs[p].classId
                 n == Len(procs[p].studentIds)
             IN  /\ procs[p].seen + n <= classes[c].capacity
                 /\ AdmissionCount(adm', c) = AdmissionCount(adm, c) + n
                 /\ (/\ AdmissionCount(adm, c) <= classes[c].capacity
                     /\ AdmissionCount(adm', c) > classes[c].capacity)
                       => procs[p].seen < AdmissionCount(adm, c)]_vars

\* Both processes read a count of 0 for class B of capacity 1, both were
\* answered 201, and B holds two admissions.
C21_Witness ==
    /\ \A p \in ProcIds :
          /\ procs[p].pc = "idle"
          /\ procs[p] # Idle
          /\ procs[p].classId = "B"
          /\ procs[p].seen = 0
          /\ procs[p].status = 201
    /\ procs["p1"].studentIds = <<"s1">>
    /\ procs["p2"].studentIds = <<"s2">>
    /\ AdmissionCount(adm, "B") = 2
    /\ AdmissionCount(adm, "B") > classes["B"].capacity

\* C22: once two concurrent promoteStudents requests that include the same
\* student have both completed, the student's enrollments are exactly the
\* course offerings of the class the student's admission points to.
C22_PromotionInterleaving ==
    \A s \in StudentIds :
        (\A p \in ProcIds :
            /\ procs[p].pc = "idle"
            /\ procs[p] # Idle
            /\ procs[p].status = 200
            /\ s \in Range(procs[p].studentIds))
        => \A c \in ClassIds :
              adm[<<s, c>>] > 0 =>
                  EnrolledOfferings(enr, s) = OfferingsOfClass(offerings, c)

\* C23: there is at most one enrollment row per (student, course offering),
\* whatever the inputs of createStudent, createSubject, enrollStudents and
\* promoteStudents; repeating an identical enrollStudents request adds no
\* row.
C23_EnrollmentUniqueness ==
    [][/\ \A k \in DOMAIN enr' : enr'[k] <= 1
       /\ (/\ resp.op = "enrollStudents"
           /\ resp.status = 201
           /\ resp'.op = "enrollStudents"
           /\ resp'.req = resp.req) => enr' = enr]_vars

\* C24: each (class, subject) pair has at most one course offering, whatever
\* the inputs of createSubject, addSubjectsToClass and editSubject.
C24_OfferingUniqueness ==
    \A o, p \in OfferingIds :
        (/\ offerings[o].exists /\ offerings[p].exists
         /\ offerings[o].class_id = offerings[p].class_id
         /\ offerings[o].subject_id = offerings[p].subject_id) => o = p
\* C25: none of editSubject, deleteSubjectsFromClass and deleteClass deletes
\* a course offering that still has a student enrollment: an offering with
\* an enrollment before such a request is still there after it.
C25_EnrolledOfferingKept ==
    [][resp'.op \in {"editSubject", "deleteSubjectsFromClass", "deleteClass"}
       => \A o \in OfferingIds :
             (offerings[o].exists /\ \E s \in StudentIds : enr[<<s, o>>] > 0)
                => offerings'[o].exists]_vars
\* C26: in every state reached through addStudentsToClass,
\* deleteStudentFromClass, enrollStudents, createStudent and promoteStudents,
\* every enrollment of a student is in an offering of a class the student
\* holds an admission in.
C26_EnrollmentsFollowAdmissions ==
    \A s \in StudentIds, o \in OfferingIds :
       enr[<<s, o>>] > 0
          => /\ offerings[o].exists
             /\ adm[<<s, offerings[o].class_id>>] > 0
\* C27: through any sequence of createClass and editClass requests no two
\* classes share the same (academic_year, standard, section, medium).
C27_ClassUniqueness ==
    \A c, d \in ClassIds :
       (/\ c # d
        /\ classes[c].exists
        /\ classes[d].exists
        /\ classes[c].academic_year_id = classes[d].academic_year_id
        /\ classes[c].standard = classes[d].standard
        /\ classes[c].section = classes[d].section)
          => classes[c].medium # classes[d].medium

\* C28: editClass never leaves a class with a capacity below its number of
\* admissions: a request that would is rejected and the class row stays as
\* it was.
C28_CapacityNotBelowAdmissions ==
    [][(/\ resp'.op = "editClass"
        /\ resp'.req.id \in ClassIds
        /\ classes[resp'.req.id].exists
        /\ resp'.req.numeric
        /\ resp'.req.capacity < AdmissionCount(adm, resp'.req.id))
       => /\ resp'.status >= 400
          /\ classes' = classes]_vars
\* C29: through createLeaveRequest and updateLeaveStatus, an attendance row
\* written by the approval of a leave (on_leave, with that leave's remark)
\* exists only while that leave is approved: every such row belongs to a day
\* of an approved leave of the employee with that reason.
C29_LeaveRowsOnlyWhileApproved ==
    \A k \in DOMAIN empAtt :
       (empAtt[k].exists /\ empAtt[k].status = "on_leave")
          => \E l \in LeaveIds :
                /\ leaves[l].exists
                /\ leaves[l].status = "approved"
                /\ leaves[l].employee_id = k[1]
                /\ leaves[l].start_date <= k[2]
                /\ k[2] <= leaves[l].end_date
                /\ empAtt[k].remarks = <<"Approved Leave: ", leaves[l].reason>>
\* C30: createLeave over a range of future days followed by cancelLeave on
\* the first day restores the student's attendance of every day of the
\* range: a day without a row has none again, a day with a row has its
\* previous status and remark.  With leaves asked for one at a time and
\* cancelled by their first day, a student who holds no leave has the
\* register of before the first leave.
C30_CancelRestoresRegister ==
    \A s \in StudentIds :
       LeaveDays(stuAtt, s) = {}
          => \A d \in Days :
                /\ stuAtt[<<s, d>>].exists = SeededRegister[<<s, d>>].exists
                /\ stuAtt[<<s, d>>].exists =>
                      /\ stuAtt[<<s, d>>].status = SeededRegister[<<s, d>>].status
                      /\ stuAtt[<<s, d>>].remarks = SeededRegister[<<s, d>>].remarks


====
